---- MODULE Spec2Model ----
(***************************************************************************)
(* The streaming playback engine of somafm-cli (src/src/audio.rs):         *)
(* SimpleAudioPlayer's commands, the retry controller stream_with_retry,   *)
(* one playback attempt fetch_and_play_stream with its network fetch task, *)
(* the blocking decode worker and the sink-feeding loop.                   *)
(*                                                                         *)
(* A session is one play() call; its cancellation token is identified by   *)
(* the session number.  Option<T> values are sequences of length 0 or 1.   *)
(***************************************************************************)
EXTENDS Integers, Sequences, FiniteSets, TLC

\* ------------------------------------------------------------------ bounds
\* sessions (play() calls) the model has room for
MaxSessions == 2
\* play() calls the caller makes under Spec
MaxPlays == 1
\* successful HTTP responses (fetch tasks spawned) per session
MaxFetch == 1
\* response chunks delivered to one fetch task
MaxChunks == 2
\* iterations of one decode worker's loop
MaxPolls == 2
\* receivers handed out by event_receiver()
MaxSubscribers == 2
\* lines of a playlist body
MaxLines == 2
\* iterations of the decode worker's loop under SpecDecode: six rounds of
\* MAX_CONSECUTIVE_ERRORS + 1 starved reads take the backoff delay to its cap
MaxStarves == 97
\* iterations of the decode worker's loop under SpecHandoff: one more than the
\* hand-off channel holds
MaxBatches == 17

\* ------------------------------------------------------- program constants
MAX_RETRY_ATTEMPTS == 5
MAX_BUFFER_SIZE == 8388608
BACKPRESSURE_THRESHOLD == 6291456
CLEANUP_THRESHOLD == 2097152
INITIAL_BUFFER == 65536
PROGRESS_INTERVAL == 262144
CHANNEL_CAPACITY == 16
MAX_CONSECUTIVE_ERRORS == 15
INITIAL_BACKOFF_MS == 10
MAX_BACKOFF_DELAY == 500

\* sizes of the response chunks the network delivers, and of the decoder's reads
ChunkSizes == {32768, 262144}
ReadSizes == {32768}

Sessions == 1..MaxSessions
Slots == 1..MaxFetch

\* the URLs the caller plays: a direct stream and a .pls playlist
UrlDirect == "http://x/live.mp3"
UrlPls == "http://x/stream.pls"
Urls == {UrlDirect, UrlPls}

\* the reasons an attempt fails with
ErrSink == "sink"
ErrHttp == "http"
ErrProbe == "probe"

None == << >>
Some(x) == << x >>
IsSome(o) == Len(o) = 1
Unwrap(o) == o[1]

\* PlaybackState
Stopped == << "Stopped" >>
Playing == << "Playing" >>
Paused == << "Paused" >>
Connecting == << "Connecting" >>
ErrorState(msg) == << "Error", msg >>
IsError(st) == st[1] = "Error"

\* PlayerEvent
EvConnecting(u) == << "Connecting", u >>
EvConnected == << "Connected" >>
EvStopped == << "Stopped" >>
EvPaused == << "Paused" >>
EvResumed == << "Resumed" >>
EvError(kind, e) == << "Error", kind, e >>
EvBufferProgress(n) == << "BufferProgress", n >>
IsErrorEvent(ev) == ev[1] = "Error"

VARIABLES
    \* PlayerState, behind the state mutex
    current_url, playback_state, sink, cancellation_token, auto_reconnect,
    reconnect_attempts,
    \* the watch channel's slot, and the tokens that were cancelled
    event, cancelled,
    \* the caller: its position inside play()/shutdown(), play()'s url, sessions made
    callerPc, callerUrl, nSessions,
    \* per session: the retry loop and its attempt; per session and attempt slot:
    \* the network fetch task and the shared buffer; the decode worker and its channel
    ctl, net, sbuf, dec, audio_ch,
    \* history: playback_state's changes, what each session published, and the
    \* position of the caller in the scripted command sequence
    hist, obs, script,
    \* the receivers handed out by event_receiver(), and the event last sent
    receivers, published,
    \* a playlist body, and what the resolvers made of it
    content, resolution,
    \* AppController's UIState: the station list, the selection and the track shown
    ui_app,
    \* who holds the state mutex, the buffer lock and the cursor lock, and the
    \* critical section each task is in
    lock_holder, task_at

pvars == << current_url, playback_state, sink, cancellation_token, auto_reconnect,
            reconnect_attempts >>
cvars == << callerPc, callerUrl, nSessions >>
tvars == << ctl, net, sbuf, dec, audio_ch >>
gvars == << hist, obs, script >>
evars == << receivers, published >>
lvars == << content, resolution >>
kvars == << lock_holder, task_at >>
vars == << pvars, event, cancelled, cvars, tvars, gvars, evars, lvars, ui_app, kvars >>

IsCancelled(s) == s \in cancelled

\* a new Sink of session s: playing, nothing queued
NewSink(s) == [owner |-> s, paused |-> FALSE, queue |-> << >>]

CtlInit == [pc |-> "unspawned", url |-> UrlDirect, actual_url |-> UrlDirect,
            e |-> "", k |-> 0]
NetInit == [pc |-> "none", chunk |-> 0, total_bytes |-> 0, n |-> 0]
BufInit == [base |-> 0, len |-> 0, pos |-> 0]
DecInit == [pc |-> "none", consecutive_errors |-> 0,
            backoff_delay |-> INITIAL_BACKOFF_MS, batch |-> 0, n |-> 0, polls |-> 0]

DecEnded == [DecInit EXCEPT !.pc = "ended"]

PlayerInit ==
    /\ current_url = None
    /\ playback_state = Stopped
    /\ sink = None
    /\ cancellation_token = None
    /\ auto_reconnect = TRUE
    /\ reconnect_attempts = 0

\* ------------------------------------------------------------ playlists
\* text is a sequence of tokens: "File", "Title", digits, "=", " " and pieces of a URL
StartsWith(s, p) == Len(s) >= Len(p) /\ SubSeq(s, 1, Len(p)) = p
EndsWith(s, p) == Len(s) >= Len(p) /\ SubSeq(s, Len(s) - Len(p) + 1, Len(s)) = p
Contains(s, c) == \E i \in 1..Len(s) : s[i] = c

\* str::trim
RECURSIVE TrimStart(_)
TrimStart(s) == IF s # << >> /\ Head(s) = " " THEN TrimStart(Tail(s)) ELSE s
RECURSIVE TrimEnd(_)
TrimEnd(s) ==
    IF s # << >> /\ s[Len(s)] = " " THEN TrimEnd(SubSeq(s, 1, Len(s) - 1)) ELSE s
Trim(s) == TrimEnd(TrimStart(s))

\* the position of the first c in s, Len(s) + 1 when there is none
IndexOf(s, c) ==
    LET I == {i \in 1..Len(s) : s[i] = c}
    IN  IF I = {} THEN Len(s) + 1 ELSE CHOOSE i \in I : \A j \in I : i <= j

\* line.split('=').nth(1) of a line that contains '=': the text between the
\* first '=' and the second one, or the end of the line
SplitNth1(line) ==
    LET rest == SubSeq(line, IndexOf(line, "=") + 1, Len(line))
    IN  SubSeq(rest, 1, IndexOf(rest, "=") - 1)

\* str::replace(p, ""): every occurrence of p is removed
RECURSIVE Replace(_, _)
Replace(s, p) ==
    IF Len(s) < Len(p) THEN s
    ELSE IF StartsWith(s, p) THEN Replace(SubSeq(s, Len(p) + 1, Len(s)), p)
    ELSE << Head(s) >> \o Replace(Tail(s), p)

Ok(v) == [ok |-> TRUE, v |-> v]
Err == [ok |-> FALSE, v |-> << >>]

\* the first line of content that satisfies a test, as a set of at most one index
First(I) == {i \in I : \A j \in I : i <= j}

PlsUrl == << "http://x/stream", ".pls" >>
M3uUrl == << "http://x/stream", ".m3u" >>
PlaylistUrls == {PlsUrl, M3uUrl}

\* audio.rs parse_playlist, after the body was fetched
parse_playlist(playlist_url, body) ==
    LET pls == First({i \in 1..Len(body) :
                        StartsWith(body[i], << "File" >>) /\ Contains(body[i], "=")})
        m3u == First({i \in 1..Len(body) :
                        Trim(body[i]) # << >> /\ ~StartsWith(Trim(body[i]), << "#" >>)})
    IN  IF EndsWith(playlist_url, << ".pls" >>) /\ pls # {}
        THEN Ok(Trim(SplitNth1(body[CHOOSE i \in pls : TRUE])))
        ELSE IF EndsWith(playlist_url, << ".m3u" >>) /\ m3u # {}
        THEN Ok(Trim(body[CHOOSE i \in m3u : TRUE]))
        ELSE Err

File1 == << "File", "1", "=" >>

\* utils/parsing.rs ParsingUtils::parse_pls_content
parse_pls_content(body) ==
    LET f == First({i \in 1..Len(body) : StartsWith(body[i], File1)})
    IN  IF f # {} THEN Ok(Replace(body[CHOOSE i \in f : TRUE], File1)) ELSE Err

\* the lines a playlist body is made of
PlaylistLines ==
    { << "[playlist]" >>,
      << "File", "1", "=", "http://a/s" >>,
      << "File", "2", "=", "http://b/s" >>,
      << "File", "1", "=", "http://a/s?k", "=", "v" >>,
      << "File", "1", "=", "http://a/s", " " >>,
      << "Title", "1", "=", "t" >>,
      << "#", "EXTM3U" >>,
      << "http://c/s" >> }

RECURSIVE Bodies(_)
Bodies(n) ==
    IF n = 0 THEN {<< >>}
    ELSE Bodies(n - 1) \cup {Append(b, l) : b \in {c \in Bodies(n - 1) : Len(c) = n - 1},
                                            l \in PlaylistLines}

\* nothing resolved yet for a playlist at playlist_url
ResolutionInit(playlist_url) ==
    [playlist_url |-> playlist_url, called |-> {}, parse_playlist |-> Err,
     parse_pls_content |-> Err, actual_url |-> << >>]

Subscribers == 1..MaxSubscribers

\* a watch::Receiver not handed out yet; changed: its version is behind the slot's
ReceiverInit == [created |-> FALSE, changed |-> FALSE, pc |-> "wait", got |-> None]

\* the state mutex of the player, and an attempt's buffer lock and cursor lock
Locks == {"state", "shared_buf", "read_pos"}
\* the caller of the commands, the session's task (retry loop and attempt), the
\* attempt's network fetch task and its decode worker
Tasks == {"caller", "session", "fetch", "decode"}
Free == "free"

\* the buffer-management round with the cursor lock taken first
LockOrder_cursor_first(section) ==
    CASE section = "manage" -> << "read_pos", "shared_buf" >>
      [] section \in {"cleanup", "evict", "probe", "read"}
            -> << "shared_buf", "read_pos" >>
      [] section \in {"append", "wait"} -> << "shared_buf" >>
      [] section \in {"command", "should_retry", "install_sink", "feed", "failed"}
            -> << "state" >>
      [] OTHER -> << >>

\* the locks a critical section takes, in the order it takes them
LockOrder(section) ==
    CASE section \in {"manage", "cleanup", "evict", "probe", "read"}
            -> << "shared_buf", "read_pos" >>
      [] section \in {"append", "wait"} -> << "shared_buf" >>
      [] section \in {"command", "should_retry", "install_sink", "feed", "failed"}
            -> << "state" >>
      [] OTHER -> << >>

\* the critical sections that can come after one, in the task's code
Follows(section) ==
    CASE section = "command" -> {"command"}
      [] section = "should_retry" -> {"install_sink", "done"}
      [] section = "install_sink" -> {"wait", "failed"}
      [] section = "wait" -> {"wait", "probe", "done"}
      [] section = "probe" -> {"probe", "feed", "failed"}
      [] section = "feed" -> {"feed", "failed", "done"}
      [] section = "failed" -> {"done"}
      [] section = "manage" -> {"manage", "cleanup", "evict", "append", "done"}
      [] section \in {"cleanup", "evict"} -> {"manage"}
      [] section = "append" -> {"manage", "done"}
      [] section = "read" -> {"read", "done"}
      [] OTHER -> {}

FirstSection(t) ==
    CASE t = "caller" -> "command"
      [] t = "session" -> "should_retry"
      [] t = "fetch" -> "manage"
      [] t = "decode" -> "read"

\* a task at the start of a section: it holds nothing and needs the section's locks
Enter(section) == [section |-> section, need |-> LockOrder(section)]

\* UIState::new: no stations, the first row selected, nothing shown or played
UIStateNew ==
    [stations |-> << >>, current_station_index |-> 0, should_quit |-> FALSE,
     current_track |-> None, currently_playing_station_id |-> None,
     is_fetching_stations |-> FALSE, is_fetching_track |-> FALSE]

EngineInit ==
    /\ PlayerInit
    /\ event = EvStopped
    /\ cancelled = {}
    /\ callerPc = "idle"
    /\ callerUrl = UrlDirect
    /\ nSessions = 0
    /\ ctl = [s \in Sessions |-> CtlInit]
    /\ net = [s \in Sessions |-> [k \in Slots |-> NetInit]]
    /\ sbuf = [s \in Sessions |-> [k \in Slots |-> BufInit]]
    /\ dec = [s \in Sessions |-> DecInit]
    /\ audio_ch = [s \in Sessions |-> << >>]
    /\ hist = << Stopped >>
    /\ obs = [s \in Sessions |-> [attempts |-> 0, errors |-> 0, last |-> "none"]]
    /\ script = 0
    /\ receivers = [u \in Subscribers |-> ReceiverInit]
    /\ published = None
    /\ ui_app = UIStateNew
    /\ lock_holder = [l \in Locks |-> Free]
    /\ task_at = [t \in Tasks |-> IF t \in {"caller", "session"}
                                  THEN Enter(FirstSection(t)) ELSE Enter("none")]

\* no playlist has been fetched
Init ==
    /\ EngineInit
    /\ content = << >>
    /\ resolution = ResolutionInit(PlsUrl)

\* ---------------------------------------------------------------- commands
\* stop(): cancel and take the token, stop and take the sink, reset, publish
StopBody ==
    /\ cancelled' = IF IsSome(cancellation_token)
                    THEN cancelled \cup {Unwrap(cancellation_token)}
                    ELSE cancelled
    /\ cancellation_token' = None
    /\ sink' = None
    /\ current_url' = None
    /\ playback_state' = Stopped
    /\ reconnect_attempts' = 0
    /\ event' = EvStopped
    /\ UNCHANGED auto_reconnect

stop ==
    /\ callerPc = "idle"
    /\ StopBody
    /\ UNCHANGED << cvars, tvars >>

\* play(url) that does not stop the previous session first
play_without_stop(u, limit) ==
    /\ callerPc = "idle"
    /\ nSessions < limit
    /\ callerPc' = "play_install"
    /\ callerUrl' = u
    /\ UNCHANGED << pvars, event, cancelled, nSessions, tvars >>

\* play(url), first part: self.stop()
play_stop(u, limit) ==
    /\ callerPc = "idle"
    /\ nSessions < limit
    /\ StopBody
    /\ callerPc' = "play_install"
    /\ callerUrl' = u
    /\ UNCHANGED << nSessions, tvars >>

\* play(url), second part: the new token and the state update under the lock
play_install ==
    /\ callerPc = "play_install"
    /\ nSessions' = nSessions + 1
    /\ current_url' = Some(callerUrl)
    /\ playback_state' = Connecting
    /\ cancellation_token' = Some(nSessions + 1)
    /\ reconnect_attempts' = 0
    /\ callerPc' = "play_spawn"
    /\ UNCHANGED << sink, auto_reconnect, event, cancelled, callerUrl, tvars >>

\* play(url), last part: the Connecting event and the spawn of stream_with_retry
play_spawn ==
    /\ callerPc = "play_spawn"
    /\ event' = EvConnecting(callerUrl)
    /\ ctl' = [ctl EXCEPT ![nSessions] =
                 [CtlInit EXCEPT !.pc = "check_retry", !.url = callerUrl,
                                 !.actual_url = callerUrl]]
    /\ callerPc' = "idle"
    /\ UNCHANGED << pvars, cancelled, callerUrl, nSessions, net, sbuf, dec, audio_ch >>

\* pause() that does not look for a sink
pause_without_sink ==
    /\ callerPc = "idle"
    /\ playback_state' = Paused
    /\ event' = EvPaused
    /\ UNCHANGED << current_url, sink, cancellation_token, auto_reconnect,
                    reconnect_attempts, cancelled, cvars, tvars >>

\* pause() that pauses the sink and publishes Paused but keeps playback_state
pause_keeps_state ==
    /\ callerPc = "idle"
    /\ IF IsSome(sink)
       THEN /\ sink' = Some([Unwrap(sink) EXCEPT !.paused = TRUE])
            /\ event' = EvPaused
       ELSE UNCHANGED << sink, event >>
    /\ UNCHANGED << current_url, playback_state, cancellation_token, auto_reconnect,
                    reconnect_attempts, cancelled, cvars, tvars >>

pause ==
    /\ callerPc = "idle"
    /\ IF IsSome(sink)
       THEN /\ sink' = Some([Unwrap(sink) EXCEPT !.paused = TRUE])
            /\ playback_state' = Paused
            /\ event' = EvPaused
       ELSE UNCHANGED << sink, playback_state, event >>
    /\ UNCHANGED << current_url, cancellation_token, auto_reconnect,
                    reconnect_attempts, cancelled, cvars, tvars >>

resume ==
    /\ callerPc = "idle"
    /\ IF IsSome(sink)
       THEN /\ sink' = Some([Unwrap(sink) EXCEPT !.paused = FALSE])
            /\ playback_state' = Playing
            /\ event' = EvResumed
       ELSE UNCHANGED << sink, playback_state, event >>
    /\ UNCHANGED << current_url, cancellation_token, auto_reconnect,
                    reconnect_attempts, cancelled, cvars, tvars >>

set_auto_reconnect(enabled) ==
    /\ callerPc = "idle"
    /\ auto_reconnect' = enabled
    /\ UNCHANGED << current_url, playback_state, sink, cancellation_token,
                    reconnect_attempts, event, cancelled, cvars, tvars >>

\* shutdown(), first part: self.stop()
shutdown_stop ==
    /\ callerPc = "idle"
    /\ StopBody
    /\ callerPc' = "shutdown_clear"
    /\ UNCHANGED << callerUrl, nSessions, tvars >>

\* shutdown(), second part: the token is cleared under a second lock
shutdown_clear ==
    /\ callerPc = "shutdown_clear"
    /\ cancellation_token' = None
    /\ callerPc' = "idle"
    /\ UNCHANGED << current_url, playback_state, sink, auto_reconnect,
                    reconnect_attempts, event, cancelled, callerUrl, nSessions, tvars >>


\* ------------------------------------------------ stream_with_retry (one per session)
Slot(s) == ctl[s].k

\* who still holds the Arc of the shared buffer of attempt k of session s: the
\* attempt itself until it returns, and its fetch task until it ends
AttemptPcs == {"init_wait", "probe", "feed", "join"}
AttemptHolds(s, k) == ctl[s].k = k /\ ctl[s].pc \in AttemptPcs
NetAlive(s, k) == net[s][k].pc # "none"

\* the fetch task of attempt k ends: the buffer is freed with its last holder
NetEnds(s, k) ==
    /\ net' = [net EXCEPT ![s][k] = NetInit]
    /\ sbuf' = IF AttemptHolds(s, k) THEN sbuf ELSE [sbuf EXCEPT ![s][k] = BufInit]

\* the attempt returns: the decode task was awaited, the channel is dropped, and
\* the buffer is freed with its last holder
AttemptReturns(s, b) ==
    /\ dec' = [dec EXCEPT ![s] = DecInit]
    /\ audio_ch' = [audio_ch EXCEPT ![s] = << >>]
    /\ sbuf' = [sbuf EXCEPT ![s][Slot(s)] = IF NetAlive(s, Slot(s)) THEN b ELSE BufInit]
Min(a, b) == IF a < b THEN a ELSE b

SetCtl(s, pc) == ctl' = [ctl EXCEPT ![s].pc = pc]
\* stream_with_retry returns: the task and its locals are gone
Exit(s) == ctl' = [ctl EXCEPT ![s] = [CtlInit EXCEPT !.pc = "done"]]
\* the Err(e) arm is left for the next round of the loop
NextRound(s) == ctl' = [ctl EXCEPT ![s].pc = "check_retry", ![s].e = "",
                                   ![s].actual_url = ctl[s].url]
Fail(s, e) == ctl' = [ctl EXCEPT ![s].pc = "failed", ![s].e = e]

\* should_retry, read under the state lock; the loop ends when it is false
retry_check(s) ==
    /\ ctl[s].pc = "check_retry"
    /\ IF auto_reconnect /\ reconnect_attempts < MAX_RETRY_ATTEMPTS
       THEN SetCtl(s, "check_cancel")
       ELSE Exit(s)
    /\ UNCHANGED << pvars, event, cancelled, cvars, net, sbuf, dec, audio_ch >>

\* a loop head that does not look at the token
retry_cancel_check_blind(s) ==
    /\ ctl[s].pc = "check_cancel"
    /\ SetCtl(s, "resolve")
    /\ UNCHANGED << pvars, event, cancelled, cvars, net, sbuf, dec, audio_ch >>

retry_cancel_check(s) ==
    /\ ctl[s].pc = "check_cancel"
    /\ IF IsCancelled(s) THEN Exit(s) ELSE SetCtl(s, "resolve")
    /\ UNCHANGED << pvars, event, cancelled, cvars, net, sbuf, dec, audio_ch >>

IsDirect(u) == u = UrlDirect
IsPlaylist(u) == u = UrlPls

\* resolve_stream_url on a direct stream URL: returned as is
resolve_direct(s) ==
    /\ ctl[s].pc = "resolve"
    /\ ~IsPlaylist(ctl[s].url)
    /\ ctl' = [ctl EXCEPT ![s].pc = "create_sink", ![s].actual_url = ctl[s].url]
    /\ UNCHANGED << pvars, event, cancelled, cvars, net, sbuf, dec, audio_ch >>

\* resolve_stream_url on a playlist: the playlist's HTTP response arrives (the
\* client has no timeout and the wait does not watch the token); an error falls
\* back to the original URL
resolve_playlist(s, ok) ==
    /\ ctl[s].pc = "resolve"
    /\ IsPlaylist(ctl[s].url)
    /\ ctl' = [ctl EXCEPT ![s].pc = "create_sink",
                          ![s].actual_url = IF ok THEN UrlDirect ELSE ctl[s].url]
    /\ UNCHANGED << pvars, event, cancelled, cvars, net, sbuf, dec, audio_ch >>

\* ------------------------------------------------ fetch_and_play_stream (one attempt)
\* Sink::try_new, then the sink is stored and the state set to Playing
attempt_sink(s, ok) ==
    /\ ctl[s].pc = "create_sink"
    /\ IF ok
       THEN /\ sink' = Some(NewSink(s))
            /\ playback_state' = Playing
            /\ SetCtl(s, "send_connected")
       ELSE /\ Fail(s, ErrSink)
            /\ UNCHANGED << sink, playback_state >>
    /\ UNCHANGED << current_url, cancellation_token, auto_reconnect, reconnect_attempts,
                    event, cancelled, cvars, net, sbuf, dec, audio_ch >>

\* an attempt that goes on to the request without publishing Connected
attempt_connected_silent(s) ==
    /\ ctl[s].pc = "send_connected"
    /\ SetCtl(s, "http")
    /\ UNCHANGED << pvars, event, cancelled, cvars, net, sbuf, dec, audio_ch >>

attempt_connected(s) ==
    /\ ctl[s].pc = "send_connected"
    /\ event' = EvConnected
    /\ SetCtl(s, "http")
    /\ UNCHANGED << pvars, cancelled, cvars, net, sbuf, dec, audio_ch >>

\* the response of client.get(url).send(): a non-success status fails the attempt,
\* a success creates the shared buffer and spawns the network fetch task
http_response(s, success) ==
    /\ ctl[s].pc = "http"
    /\ IF success
       THEN /\ Slot(s) < MaxFetch
            /\ ctl' = [ctl EXCEPT ![s].pc = "init_wait", ![s].k = Slot(s) + 1]
            /\ net' = [net EXCEPT ![s][Slot(s) + 1] = [NetInit EXCEPT !.pc = "next"]]
            /\ sbuf' = [sbuf EXCEPT ![s][Slot(s) + 1] = BufInit]
       ELSE /\ Fail(s, ErrHttp)
            /\ UNCHANGED << net, sbuf >>
    /\ UNCHANGED << pvars, event, cancelled, cvars, dec, audio_ch >>

\* the request fails in transport
http_error(s) ==
    /\ ctl[s].pc = "http"
    /\ Fail(s, ErrHttp)
    /\ UNCHANGED << pvars, event, cancelled, cvars, net, sbuf, dec, audio_ch >>

\* the client's 120 s timeout ends the request
http_timeout(s) ==
    /\ ctl[s].pc = "http"
    /\ Fail(s, ErrHttp)
    /\ UNCHANGED << pvars, event, cancelled, cvars, net, sbuf, dec, audio_ch >>

\* the wait for 64 KiB of initial data, left when the data is there or the token is
\* cancelled; a cancelled attempt returns Ok and the retry loop breaks
initial_wait(s) ==
    /\ ctl[s].pc = "init_wait"
    /\ sbuf[s][Slot(s)].len >= INITIAL_BUFFER \/ IsCancelled(s)
    /\ IF IsCancelled(s)
       THEN Exit(s) /\ AttemptReturns(s, sbuf[s][Slot(s)])
       ELSE SetCtl(s, "probe") /\ UNCHANGED << sbuf, dec, audio_ch >>
    /\ UNCHANGED << pvars, event, cancelled, cvars, net >>

\* a read that does not look at how many bytes are unread
ReadLen_unchecked(b, max_len) == max_len

\* StreamingSource::read: the bytes a read of max_len returns
ReadLen(b, max_len) == IF b.pos >= b.len THEN 0 ELSE Min(max_len, b.len - b.pos)
ReadSource(b, max_len) == [b EXCEPT !.pos = b.pos + ReadLen(b, max_len)]

\* the probe of the container, the default track and its decoder; success creates
\* the hand-off channel and spawns the decode worker
probe(s, m, ok) ==
    /\ ctl[s].pc = "probe"
    /\ IF ok
       THEN /\ SetCtl(s, "feed")
            /\ sbuf' = [sbuf EXCEPT ![s][Slot(s)] = ReadSource(sbuf[s][Slot(s)], m)]
            /\ dec' = [dec EXCEPT ![s] = [DecInit EXCEPT !.pc = "check"]]
            /\ audio_ch' = [audio_ch EXCEPT ![s] = << >>]
       ELSE /\ Fail(s, ErrProbe)
            /\ AttemptReturns(s, ReadSource(sbuf[s][Slot(s)], m))
    /\ UNCHANGED << pvars, event, cancelled, cvars, net >>

\* a feeding loop that takes the newest batch of the channel first
feed_recv_newest(s) ==
    /\ ctl[s].pc = "feed"
    /\ audio_ch[s] # << >>
    /\ audio_ch' = [audio_ch EXCEPT ![s] = SubSeq(audio_ch[s], 1, Len(audio_ch[s]) - 1)]
    /\ sink' = IF IsSome(sink)
               THEN Some([Unwrap(sink) EXCEPT
                            !.queue = Append(Unwrap(sink).queue,
                                             << s, audio_ch[s][Len(audio_ch[s])] >>),
                            !.paused = FALSE])
               ELSE sink
    /\ UNCHANGED << current_url, playback_state, cancellation_token, auto_reconnect,
                    reconnect_attempts, event, cancelled, cvars, ctl, net, sbuf, dec >>

\* the sink-feeding loop receives a batch: appended to whatever sink the state holds
feed_recv(s) ==
    /\ ctl[s].pc = "feed"
    /\ audio_ch[s] # << >>
    /\ audio_ch' = [audio_ch EXCEPT ![s] = Tail(audio_ch[s])]
    /\ sink' = IF IsSome(sink)
               THEN Some([Unwrap(sink) EXCEPT
                            !.queue = Append(Unwrap(sink).queue, << s, Head(audio_ch[s]) >>),
                            !.paused = FALSE])
               ELSE sink
    /\ UNCHANGED << current_url, playback_state, cancellation_token, auto_reconnect,
                    reconnect_attempts, event, cancelled, cvars, ctl, net, sbuf, dec >>

\* the channel is closed and drained: the decode worker has ended
feed_closed(s) ==
    /\ ctl[s].pc = "feed"
    /\ audio_ch[s] = << >>
    /\ dec[s].pc = "ended"
    /\ SetCtl(s, "join")
    /\ UNCHANGED << pvars, event, cancelled, cvars, net, sbuf, dec, audio_ch >>

feed_cancelled(s) ==
    /\ ctl[s].pc = "feed"
    /\ IsCancelled(s)
    /\ SetCtl(s, "join")
    /\ UNCHANGED << pvars, event, cancelled, cvars, net, sbuf, dec, audio_ch >>

\* decode_task.await, then Ok(()): "Stream ended normally", the retry loop breaks
join_decode(s) ==
    /\ ctl[s].pc = "join"
    /\ dec[s].pc = "ended"
    /\ Exit(s)
    /\ AttemptReturns(s, sbuf[s][Slot(s)])
    /\ UNCHANGED << pvars, event, cancelled, cvars, net >>

\* the attempt returned Err(e): count it; at the ceiling set Error and stop
\* a failure handler whose ceiling test is > instead of >=
stream_failed_late_ceiling(s) ==
    /\ ctl[s].pc = "failed"
    /\ reconnect_attempts' = reconnect_attempts + 1
    /\ IF reconnect_attempts + 1 > MAX_RETRY_ATTEMPTS
       THEN /\ playback_state' = ErrorState(ctl[s].e)
            /\ event' = EvError("max", ctl[s].e)
            /\ Exit(s)
       ELSE /\ SetCtl(s, "send_error")
            /\ UNCHANGED << playback_state, event >>
    /\ UNCHANGED << current_url, sink, cancellation_token, auto_reconnect,
                    cancelled, cvars, net, sbuf, dec, audio_ch >>

stream_failed(s) ==
    /\ ctl[s].pc = "failed"
    /\ reconnect_attempts' = reconnect_attempts + 1
    /\ IF reconnect_attempts + 1 >= MAX_RETRY_ATTEMPTS
       THEN /\ playback_state' = ErrorState(ctl[s].e)
            /\ event' = EvError("max", ctl[s].e)
            /\ Exit(s)
       ELSE /\ SetCtl(s, "send_error")
            /\ UNCHANGED << playback_state, event >>
    /\ UNCHANGED << current_url, sink, cancellation_token, auto_reconnect,
                    cancelled, cvars, net, sbuf, dec, audio_ch >>

\* an Err arm that goes to the next round without the retry delay
stream_send_error_no_delay(s) ==
    /\ ctl[s].pc = "send_error"
    /\ event' = EvError("retrying", ctl[s].e)
    /\ NextRound(s)
    /\ UNCHANGED << pvars, cancelled, cvars, net, sbuf, dec, audio_ch >>

stream_send_error(s) ==
    /\ ctl[s].pc = "send_error"
    /\ event' = EvError("retrying", ctl[s].e)
    /\ SetCtl(s, "retry_wait")
    /\ UNCHANGED << pvars, cancelled, cvars, net, sbuf, dec, audio_ch >>

\* the retry delay elapses
retry_sleep(s) ==
    /\ ctl[s].pc = "retry_wait"
    /\ NextRound(s)
    /\ UNCHANGED << pvars, event, cancelled, cvars, net, sbuf, dec, audio_ch >>

\* the retry delay is interrupted by the token
retry_cancelled(s) ==
    /\ ctl[s].pc = "retry_wait"
    /\ IsCancelled(s)
    /\ Exit(s)
    /\ UNCHANGED << pvars, event, cancelled, cvars, net, sbuf, dec, audio_ch >>


\* ------------------------------------------------ the network fetch task (per attempt)
\* stream.next() yields a chunk
net_chunk(s, k, c) ==
    /\ net[s][k].pc = "next"
    /\ net[s][k].n < MaxChunks
    /\ net' = [net EXCEPT ![s][k].pc = "select", ![s][k].chunk = c,
                          ![s][k].n = net[s][k].n + 1]
    /\ UNCHANGED << pvars, event, cancelled, cvars, ctl, sbuf, dec, audio_ch >>

\* stream.next() yields a transport error
net_chunk_err(s, k) ==
    /\ net[s][k].pc = "next"
    /\ net' = [net EXCEPT ![s][k].pc = "select", ![s][k].chunk = -1]
    /\ UNCHANGED << pvars, event, cancelled, cvars, ctl, sbuf, dec, audio_ch >>

\* the client's timeout covers the response body: stream.next() yields an error
net_timeout(s, k) ==
    /\ net[s][k].pc = "next"
    /\ net' = [net EXCEPT ![s][k].pc = "select", ![s][k].chunk = -1]
    /\ UNCHANGED << pvars, event, cancelled, cvars, ctl, sbuf, dec, audio_ch >>

\* stream.next() yields None: the response body has ended
net_end(s, k) ==
    /\ net[s][k].pc = "next"
    /\ NetEnds(s, k)
    /\ UNCHANGED << pvars, event, cancelled, cvars, ctl, dec, audio_ch >>

\* select!: the cancelled() branch
net_select_cancelled(s, k) ==
    /\ net[s][k].pc = "select"
    /\ IsCancelled(s)
    /\ NetEnds(s, k)
    /\ UNCHANGED << pvars, event, cancelled, cvars, ctl, dec, audio_ch >>

\* select!: the branch of the chunk, which is always ready; an Err is dropped
net_select_chunk(s, k) ==
    /\ net[s][k].pc = "select"
    /\ net' = IF net[s][k].chunk >= 0
              THEN [net EXCEPT ![s][k].pc = "manage",
                               ![s][k].total_bytes = net[s][k].total_bytes + net[s][k].chunk]
              ELSE [net EXCEPT ![s][k].pc = "next", ![s][k].chunk = 0]
    /\ UNCHANGED << pvars, event, cancelled, cvars, ctl, sbuf, dec, audio_ch >>

\* buffer management without the backpressure branch
ManageBranch_no_backpressure(b) ==
    IF b.pos > CLEANUP_THRESHOLD THEN "cleanup"
    ELSE IF b.len > MAX_BUFFER_SIZE THEN "evict"
    ELSE "append"

\* one round of the buffer management loop: (buf.len(), pos > CLEANUP_THRESHOLD)
\* read under the locks, then the branch taken
ManageBranch(b) ==
    IF b.pos > CLEANUP_THRESHOLD THEN "cleanup"
    ELSE IF b.len > MAX_BUFFER_SIZE THEN "evict"
    ELSE IF b.len > BACKPRESSURE_THRESHOLD THEN "backpressure"
    ELSE "append"

net_manage(s, k) ==
    /\ net[s][k].pc = "manage"
    /\ net' = [net EXCEPT ![s][k].pc = ManageBranch(sbuf[s][k])]
    /\ UNCHANGED << pvars, event, cancelled, cvars, ctl, sbuf, dec, audio_ch >>

\* a compaction that drops CLEANUP_THRESHOLD bytes, whatever the cursor
Compact_threshold(b) ==
    [base |-> b.base + CLEANUP_THRESHOLD, len |-> b.len - CLEANUP_THRESHOLD, pos |-> 0]

\* buf.drain(..pos); pos = 0
Compact(b) == IF b.pos > 0
              THEN [base |-> b.base + b.pos, len |-> b.len - b.pos, pos |-> 0]
              ELSE b

net_cleanup(s, k) ==
    /\ net[s][k].pc = "cleanup"
    /\ sbuf' = [sbuf EXCEPT ![s][k] = Compact(sbuf[s][k])]
    /\ net' = [net EXCEPT ![s][k].pc = "manage"]
    /\ UNCHANGED << pvars, event, cancelled, cvars, ctl, dec, audio_ch >>

\* buf.drain(..len / 4); pos = pos.saturating_sub(len / 4)
SaturatingSub(a, b) == IF a > b THEN a - b ELSE 0
EvictOldest(b) ==
    LET drop_size == b.len \div 4
    IN [base |-> b.base + drop_size, len |-> b.len - drop_size,
        pos |-> SaturatingSub(b.pos, drop_size)]

net_evict(s, k) ==
    /\ net[s][k].pc = "evict"
    /\ sbuf' = [sbuf EXCEPT ![s][k] = EvictOldest(sbuf[s][k])]
    /\ net' = [net EXCEPT ![s][k].pc = "manage"]
    /\ UNCHANGED << pvars, event, cancelled, cvars, ctl, dec, audio_ch >>

\* a backpressure sleep after which the chunk is appended without a new look
net_backpressure_sleep_then_append(s, k) ==
    /\ net[s][k].pc = "backpressure"
    /\ net' = [net EXCEPT ![s][k].pc = "append"]
    /\ UNCHANGED << pvars, event, cancelled, cvars, ctl, sbuf, dec, audio_ch >>

\* the 10 ms backpressure sleep elapses
net_backpressure_sleep(s, k) ==
    /\ net[s][k].pc = "backpressure"
    /\ net' = [net EXCEPT ![s][k].pc = "manage"]
    /\ UNCHANGED << pvars, event, cancelled, cvars, ctl, sbuf, dec, audio_ch >>

\* the backpressure sleep is interrupted by the token: the task returns
net_backpressure_cancelled(s, k) ==
    /\ net[s][k].pc = "backpressure"
    /\ IsCancelled(s)
    /\ NetEnds(s, k)
    /\ UNCHANGED << pvars, event, cancelled, cvars, ctl, dec, audio_ch >>

\* buf.extend_from_slice(&chunk), and the progress event
net_append(s, k) ==
    /\ net[s][k].pc = "append"
    /\ sbuf' = [sbuf EXCEPT ![s][k].len = sbuf[s][k].len + net[s][k].chunk]
    /\ event' = IF net[s][k].total_bytes % PROGRESS_INTERVAL = 0
                THEN EvBufferProgress(sbuf[s][k].len + net[s][k].chunk)
                ELSE event
    /\ net' = [net EXCEPT ![s][k].pc = "next", ![s][k].chunk = 0]
    /\ UNCHANGED << pvars, cancelled, cvars, ctl, dec, audio_ch >>

\* ------------------------------------------------ decode_blocking_task (per attempt)
dec_cancelled(s) ==
    /\ dec[s].pc = "check"
    /\ IsCancelled(s)
    /\ dec' = [dec EXCEPT ![s] = DecEnded]
    /\ UNCHANGED << pvars, event, cancelled, cvars, ctl, net, sbuf, audio_ch >>

dec_check(s, limit) ==
    /\ dec[s].pc = "check"
    /\ ~IsCancelled(s)
    /\ dec[s].polls < limit
    /\ dec' = [dec EXCEPT ![s].pc = "packet", ![s].polls = dec[s].polls + 1]
    /\ UNCHANGED << pvars, event, cancelled, cvars, ctl, net, sbuf, audio_ch >>

\* the fetch task is in a step that holds the buffer lock
HoldsBufferLock(s, k) == net[s][k].pc \in {"manage", "cleanup", "evict", "append"}

\* an UnexpectedEof arm whose backoff doubles without a cap
Starved_uncapped(d) ==
    LET ce == d.consecutive_errors + 1
        jitter == ce % 10
    IN IF ce > MAX_CONSECUTIVE_ERRORS
       THEN [d EXCEPT !.pc = "check", !.consecutive_errors = 0,
                      !.backoff_delay = d.backoff_delay * 2 + jitter]
       ELSE [d EXCEPT !.pc = "check", !.consecutive_errors = ce]

\* the UnexpectedEof arm: count, and back off after MAX_CONSECUTIVE_ERRORS
Starved(d) ==
    LET ce == d.consecutive_errors + 1
        jitter == ce % 10
    IN IF ce > MAX_CONSECUTIVE_ERRORS
       THEN [d EXCEPT !.pc = "check", !.consecutive_errors = 0,
                      !.backoff_delay = Min(d.backoff_delay * 2 + jitter, MAX_BACKOFF_DELAY)]
       ELSE [d EXCEPT !.pc = "check", !.consecutive_errors = ce]

\* the Ok(packet) arm resets the starvation counters
GotPacket(d) == [d EXCEPT !.consecutive_errors = 0, !.backoff_delay = INITIAL_BACKOFF_MS]

PacketOutcomes == {"decoded", "corrupt", "unsupported", "fatal", "reset", "short"}

\* format.next_packet() and decoder.decode(): one read of the source, then the outcome
dec_next_packet(s, m, outcome) ==
    /\ dec[s].pc = "packet"
    /\ LET b == sbuf[s][Slot(s)]
           n == ReadLen(b, m)
       IN IF n = 0
          THEN /\ outcome = "short"
               /\ dec' = [dec EXCEPT ![s] = Starved(dec[s])]
               /\ UNCHANGED sbuf
          ELSE /\ sbuf' = [sbuf EXCEPT ![s][Slot(s)] = ReadSource(b, m)]
               /\ dec' = [dec EXCEPT ![s] =
                     CASE outcome = "decoded" ->
                            [GotPacket(dec[s]) EXCEPT !.pc = "send", !.n = dec[s].n + 1]
                       [] outcome \in {"corrupt", "unsupported"} ->
                            [GotPacket(dec[s]) EXCEPT !.pc = "check"]
                       [] outcome \in {"fatal", "reset"} -> DecEnded
                       [] outcome = "short" -> Starved(dec[s])]
    /\ UNCHANGED << pvars, event, cancelled, cvars, ctl, net, audio_ch >>

\* the read finds the buffer locked by the fetch task: WouldBlock, a format error
dec_would_block(s) ==
    /\ dec[s].pc = "packet"
    /\ HoldsBufferLock(s, Slot(s))
    /\ dec' = [dec EXCEPT ![s] = DecEnded]
    /\ UNCHANGED << pvars, event, cancelled, cvars, ctl, net, sbuf, audio_ch >>

\* audio_tx.try_send(source): a full channel drops the batch
dec_try_send(s) ==
    /\ dec[s].pc = "send"
    /\ audio_ch' = IF Len(audio_ch[s]) < CHANNEL_CAPACITY
                   THEN [audio_ch EXCEPT ![s] = Append(audio_ch[s], dec[s].n)]
                   ELSE audio_ch
    /\ dec' = [dec EXCEPT ![s].pc = "check"]
    /\ UNCHANGED << pvars, event, cancelled, cvars, ctl, net, sbuf >>

\* ------------------------------------------------------------- specification
\* the steps a session's retry loop and attempt take by themselves (timers included)
ControlStep(s) ==
    \/ retry_check(s)
    \/ retry_cancel_check(s)
    \/ resolve_direct(s)
    \/ \E ok \in BOOLEAN : attempt_sink(s, ok)
    \/ attempt_connected(s)
    \/ http_timeout(s)
    \/ initial_wait(s)
    \/ \E m \in ReadSizes, ok \in BOOLEAN : probe(s, m, ok)
    \/ feed_recv(s)
    \/ feed_closed(s)
    \/ feed_cancelled(s)
    \/ join_decode(s)
    \/ stream_failed(s)
    \/ stream_send_error(s)
    \/ retry_sleep(s)
    \/ retry_cancelled(s)

\* the fetch task's steps; with the chunks of ChunkSizes, at most MaxChunks of
\* them, the buffer stays below the thresholds of the other branches
FetchStep(s, k) ==
    \/ net_timeout(s, k)
    \/ net_select_cancelled(s, k)
    \/ net_select_chunk(s, k)
    \/ net_manage(s, k)
    \/ net_append(s, k)

DecodeStep(s) ==
    \/ dec_cancelled(s)
    \/ dec_check(s, MaxPolls)
    \/ \E m \in ReadSizes, o \in PacketOutcomes : dec_next_packet(s, m, o)
    \/ dec_would_block(s)
    \/ dec_try_send(s)

OwnStep(s) ==
    \/ ControlStep(s)
    \/ \E k \in Slots : FetchStep(s, k)
    \/ DecodeStep(s)

\* what a session's retry loop and attempt did: attempts started, Error events
\* published, and the last of its Connected and Error events
ObsNext(s) ==
    IF ctl[s].pc = "create_sink" /\ ctl'[s].pc # "create_sink"
    THEN [obs[s] EXCEPT !.attempts = obs[s].attempts + 1]
    ELSE IF ctl[s].pc = "send_connected" /\ ctl'[s].pc = "http" /\ event' = EvConnected
    THEN [obs[s] EXCEPT !.last = "Connected"]
    ELSE IF /\ \/ ctl[s].pc = "send_error" /\ ctl'[s].pc = "retry_wait"
               \/ ctl[s].pc = "failed" /\ ctl'[s].pc = "done"
            /\ IsErrorEvent(event')
    THEN [obs[s] EXCEPT !.errors = obs[s].errors + 1, !.last = "Error"]
    ELSE obs[s]

Observe == obs' = [s \in Sessions |-> ObsNext(s)]

\* a step of the program under Spec: the caller's history is not kept
Step(A) == A /\ Observe /\ UNCHANGED << hist, script, evars, lvars, ui_app, kvars >>

\* the caller issues any command at any time and plays MaxPlays times; the
\* network answers, fails or stays silent; every task runs at its own pace
Next ==
    \/ Step(stop)
    \/ \E u \in Urls : Step(play_stop(u, MaxPlays))
    \/ Step(play_install)
    \/ Step(play_spawn)
    \/ Step(pause)
    \/ Step(resume)
    \/ \E b \in BOOLEAN : Step(set_auto_reconnect(b))
    \/ Step(shutdown_stop)
    \/ Step(shutdown_clear)
    \/ \E s \in Sessions, ok \in BOOLEAN : Step(resolve_playlist(s, ok))
    \/ \E s \in Sessions : Step(http_response(s, TRUE))
    \/ \E s \in Sessions, k \in Slots, c \in ChunkSizes : Step(net_chunk(s, k, c))
    \/ \E s \in Sessions, k \in Slots : Step(net_chunk_err(s, k))
    \/ \E s \in Sessions, k \in Slots : Step(net_end(s, k))
    \/ \E s \in Sessions : Step(http_response(s, FALSE))
    \/ \E s \in Sessions : Step(http_error(s))
    \/ \E s \in Sessions : Step(retry_check(s))
    \/ \E s \in Sessions : Step(retry_cancel_check(s))
    \/ \E s \in Sessions : Step(resolve_direct(s))
    \/ \E s \in Sessions : Step(attempt_sink(s, TRUE))
    \/ \E s \in Sessions : Step(attempt_connected(s))
    \/ \E s \in Sessions : Step(initial_wait(s))
    \/ \E s \in Sessions, m \in ReadSizes : Step(probe(s, m, TRUE))
    \/ \E s \in Sessions : Step(feed_recv(s))
    \/ \E s \in Sessions : Step(feed_closed(s))
    \/ \E s \in Sessions : Step(feed_cancelled(s))
    \/ \E s \in Sessions : Step(join_decode(s))
    \/ \E s \in Sessions : Step(attempt_sink(s, FALSE))
    \/ \E s \in Sessions : Step(http_timeout(s))
    \/ \E s \in Sessions, m \in ReadSizes : Step(probe(s, m, FALSE))
    \/ \E s \in Sessions : Step(stream_failed(s))
    \/ \E s \in Sessions : Step(stream_send_error(s))
    \/ \E s \in Sessions : Step(retry_sleep(s))
    \/ \E s \in Sessions : Step(retry_cancelled(s))
    \/ \E s \in Sessions, k \in Slots : Step(net_timeout(s, k))
    \/ \E s \in Sessions, k \in Slots : Step(net_select_cancelled(s, k))
    \/ \E s \in Sessions, k \in Slots : Step(net_select_chunk(s, k))
    \/ \E s \in Sessions, k \in Slots : Step(net_manage(s, k))
    \/ \E s \in Sessions, k \in Slots : Step(net_append(s, k))
    \/ \E s \in Sessions : Step(dec_cancelled(s))
    \/ \E s \in Sessions : Step(dec_check(s, MaxPolls))
    \/ \E s \in Sessions, m \in ReadSizes, o \in PacketOutcomes : Step(dec_next_packet(s, m, o))
    \/ \E s \in Sessions : Step(dec_would_block(s))
    \/ \E s \in Sessions : Step(dec_try_send(s))

Spec == Init /\ [][Next]_vars

\* ---------------------------------------- the scripted scenario of section 8
\* play(url); pause() once Playing; resume() once Paused; stop() once Playing
\* again; the stream connects and decodes: no attempt fails
Recorded(A) ==
    /\ A
    /\ Observe
    /\ hist' = IF playback_state' # playback_state
               THEN Append(hist, playback_state')
               ELSE hist
    /\ UNCHANGED << evars, lvars, ui_app, kvars >>

Command(n, A) == script = n /\ Recorded(A) /\ script' = n + 1

Scripted(A) == Recorded(A) /\ UNCHANGED script

ScriptNext ==
    \/ \E u \in Urls : Command(0, playback_state = Stopped /\ play_stop(u, MaxPlays))
    \/ Command(1, playback_state = Playing /\ pause)
    \/ Command(2, playback_state = Paused /\ resume)
    \/ Command(3, playback_state = Playing /\ stop)
    \/ Scripted(play_install)
    \/ Scripted(play_spawn)
    \/ \E s \in Sessions, ok \in BOOLEAN : Scripted(resolve_playlist(s, ok))
    \/ \E s \in Sessions : Scripted(http_response(s, TRUE))
    \/ \E s \in Sessions, k \in Slots, c \in ChunkSizes : Scripted(net_chunk(s, k, c))
    \/ \E s \in Sessions, k \in Slots : Scripted(net_chunk_err(s, k))
    \/ \E s \in Sessions, k \in Slots : Scripted(net_end(s, k))
    \/ \E s \in Sessions : Scripted(retry_check(s))
    \/ \E s \in Sessions : Scripted(retry_cancel_check(s))
    \/ \E s \in Sessions : Scripted(resolve_direct(s))
    \/ \E s \in Sessions : Scripted(attempt_sink(s, TRUE))
    \/ \E s \in Sessions : Scripted(attempt_connected(s))
    \/ \E s \in Sessions : Scripted(initial_wait(s))
    \/ \E s \in Sessions, m \in ReadSizes : Scripted(probe(s, m, TRUE))
    \/ \E s \in Sessions : Scripted(feed_recv(s))
    \/ \E s \in Sessions : Scripted(feed_closed(s))
    \/ \E s \in Sessions : Scripted(feed_cancelled(s))
    \/ \E s \in Sessions : Scripted(join_decode(s))
    \/ \E s \in Sessions, k \in Slots : Scripted(net_timeout(s, k))
    \/ \E s \in Sessions, k \in Slots : Scripted(net_select_cancelled(s, k))
    \/ \E s \in Sessions, k \in Slots : Scripted(net_select_chunk(s, k))
    \/ \E s \in Sessions, k \in Slots : Scripted(net_manage(s, k))
    \/ \E s \in Sessions, k \in Slots : Scripted(net_append(s, k))
    \/ \E s \in Sessions : Scripted(dec_cancelled(s))
    \/ \E s \in Sessions : Scripted(dec_check(s, MaxPolls))
    \/ \E s \in Sessions, m \in ReadSizes, o \in PacketOutcomes : Scripted(dec_next_packet(s, m, o))
    \/ \E s \in Sessions : Scripted(dec_would_block(s))
    \/ \E s \in Sessions : Scripted(dec_try_send(s))

SpecScript == Init /\ [][ScriptNext]_vars

\* ------------------------------------------------ the shared buffer under load
\* chunks and reads large enough for the cleanup, eviction and backpressure
\* branches of the fetch task: 3 MiB and 12 MiB chunks, reads of 2.5 MiB
BufferChunkSizes == {3145728, 12582912}
BufferReadSizes == {2621440}

\* one play() of a direct stream that connects; stop() at any time; the fetch
\* task and the decode worker share the buffer at their own pace
BufferNext ==
    \/ Step(play_stop(UrlDirect, MaxPlays))
    \/ Step(play_install)
    \/ Step(play_spawn)
    \/ Step(stop)
    \/ \E s \in Sessions : Step(retry_check(s))
    \/ \E s \in Sessions : Step(retry_cancel_check(s))
    \/ \E s \in Sessions : Step(resolve_direct(s))
    \/ \E s \in Sessions : Step(attempt_sink(s, TRUE))
    \/ \E s \in Sessions : Step(attempt_connected(s))
    \/ \E s \in Sessions : Step(http_response(s, TRUE))
    \/ \E s \in Sessions : Step(initial_wait(s))
    \/ \E s \in Sessions, m \in BufferReadSizes : Step(probe(s, m, TRUE))
    \/ \E s \in Sessions : Step(feed_recv(s))
    \/ \E s \in Sessions : Step(feed_closed(s))
    \/ \E s \in Sessions : Step(feed_cancelled(s))
    \/ \E s \in Sessions : Step(join_decode(s))
    \/ \E s \in Sessions, k \in Slots, c \in BufferChunkSizes : Step(net_chunk(s, k, c))
    \/ \E s \in Sessions, k \in Slots : Step(net_chunk_err(s, k))
    \/ \E s \in Sessions, k \in Slots : Step(net_end(s, k))
    \/ \E s \in Sessions, k \in Slots : Step(net_timeout(s, k))
    \/ \E s \in Sessions, k \in Slots : Step(net_select_cancelled(s, k))
    \/ \E s \in Sessions, k \in Slots : Step(net_select_chunk(s, k))
    \/ \E s \in Sessions, k \in Slots : Step(net_manage(s, k))
    \/ \E s \in Sessions, k \in Slots : Step(net_cleanup(s, k))
    \/ \E s \in Sessions, k \in Slots : Step(net_evict(s, k))
    \/ \E s \in Sessions, k \in Slots : Step(net_backpressure_sleep(s, k))
    \/ \E s \in Sessions, k \in Slots : Step(net_backpressure_cancelled(s, k))
    \/ \E s \in Sessions, k \in Slots : Step(net_append(s, k))
    \/ \E s \in Sessions : Step(dec_cancelled(s))
    \/ \E s \in Sessions : Step(dec_check(s, MaxPolls))
    \/ \E s \in Sessions, m \in BufferReadSizes, o \in PacketOutcomes :
          Step(dec_next_packet(s, m, o))
    \/ \E s \in Sessions : Step(dec_would_block(s))
    \/ \E s \in Sessions : Step(dec_try_send(s))

SpecBuffer == Init /\ [][BufferNext]_vars

\* ------------------------------------------------ the hand-off to the sink
\* one 1 MiB chunk gives the decode worker data for more than MaxBatches reads
HandoffChunkSizes == {1048576}

\* one play() of a direct stream that connects and is never stopped; the decode
\* worker runs MaxBatches iterations while the feeding loop receives at its own pace
HandoffNext ==
    \/ Step(play_stop(UrlDirect, MaxPlays))
    \/ Step(play_install)
    \/ Step(play_spawn)
    \/ \E s \in Sessions : Step(retry_check(s))
    \/ \E s \in Sessions : Step(retry_cancel_check(s))
    \/ \E s \in Sessions : Step(resolve_direct(s))
    \/ \E s \in Sessions : Step(attempt_sink(s, TRUE))
    \/ \E s \in Sessions : Step(attempt_connected(s))
    \/ \E s \in Sessions : Step(http_response(s, TRUE))
    \/ \E s \in Sessions : Step(initial_wait(s))
    \/ \E s \in Sessions, m \in ReadSizes : Step(probe(s, m, TRUE))
    \/ \E s \in Sessions : Step(feed_recv(s))
    \/ \E s \in Sessions : Step(feed_closed(s))
    \/ \E s \in Sessions : Step(join_decode(s))
    \/ \E s \in Sessions, k \in Slots, c \in HandoffChunkSizes : Step(net_chunk(s, k, c))
    \/ \E s \in Sessions, k \in Slots : Step(net_end(s, k))
    \/ \E s \in Sessions, k \in Slots : Step(net_select_chunk(s, k))
    \/ \E s \in Sessions, k \in Slots : Step(net_manage(s, k))
    \/ \E s \in Sessions, k \in Slots : Step(net_append(s, k))
    \/ \E s \in Sessions : Step(dec_check(s, MaxBatches))
    \/ \E s \in Sessions, m \in ReadSizes, o \in PacketOutcomes :
          Step(dec_next_packet(s, m, o))
    \/ \E s \in Sessions : Step(dec_would_block(s))
    \/ \E s \in Sessions : Step(dec_try_send(s))

SpecHandoff == Init /\ [][HandoffNext]_vars

\* ------------------------------------------------------ the event feed
\* a receiver that starts with the slot's current version marked as seen
event_receiver_seen(u) ==
    /\ ~receivers[u].created
    /\ receivers' = [receivers EXCEPT ![u] = [ReceiverInit EXCEPT !.created = TRUE]]
    /\ UNCHANGED << pvars, event, cancelled, cvars, tvars, gvars, published, lvars, ui_app, kvars >>

\* event_receiver(): a clone of the player's own receiver, which never marks a
\* version as seen: after any send the clone starts out changed
event_receiver(u) ==
    /\ ~receivers[u].created
    /\ receivers' = [receivers EXCEPT ![u] = [ReceiverInit EXCEPT
                                                !.created = TRUE,
                                                !.changed = IsSome(published)]]
    /\ UNCHANGED << pvars, event, cancelled, cvars, tvars, gvars, published, lvars, ui_app, kvars >>

\* the subscriber's changed().await returns and marks the version seen
sub_changed(u) ==
    /\ receivers[u].created
    /\ receivers[u].pc = "wait"
    /\ receivers[u].changed
    /\ receivers' = [receivers EXCEPT ![u].pc = "read", ![u].changed = FALSE]
    /\ UNCHANGED << pvars, event, cancelled, cvars, tvars, gvars, published, lvars, ui_app, kvars >>

\* the subscriber's borrow().clone(): the value in the slot now
sub_borrow(u) ==
    /\ receivers[u].pc = "read"
    /\ receivers' = [receivers EXCEPT ![u].pc = "wait", ![u].got = Some(event)]
    /\ UNCHANGED << pvars, event, cancelled, cvars, tvars, gvars, published, lvars, ui_app, kvars >>

\* a step of the program that calls event_sender.send when sends holds: the slot's
\* version moves on for every receiver
Publishing(A, sends) ==
    /\ A
    /\ Observe
    /\ UNCHANGED << hist, script, lvars, ui_app, kvars >>
    /\ published' = IF sends THEN Some(event') ELSE published
    /\ receivers' = IF sends
                    THEN [u \in Subscribers |->
                            [receivers[u] EXCEPT !.changed = receivers[u].created]]
                    ELSE receivers

\* every place of the player that sends an event, on a direct stream whose
\* requests succeed or fail, with subscribers that come and read at any time
EventsNext ==
    \/ Publishing(stop, TRUE)
    \/ Publishing(play_stop(UrlDirect, MaxPlays), TRUE)
    \/ Publishing(play_install, FALSE)
    \/ Publishing(play_spawn, TRUE)
    \/ Publishing(pause, IsSome(sink))
    \/ Publishing(resume, IsSome(sink))
    \/ \E s \in Sessions : Publishing(retry_check(s), FALSE)
    \/ \E s \in Sessions : Publishing(retry_cancel_check(s), FALSE)
    \/ \E s \in Sessions : Publishing(resolve_direct(s), FALSE)
    \/ \E s \in Sessions : Publishing(attempt_sink(s, TRUE), FALSE)
    \/ \E s \in Sessions : Publishing(attempt_connected(s), TRUE)
    \/ \E s \in Sessions : Publishing(http_response(s, TRUE), FALSE)
    \/ \E s \in Sessions : Publishing(http_response(s, FALSE), FALSE)
    \/ \E s \in Sessions :
          Publishing(stream_failed(s), reconnect_attempts + 1 >= MAX_RETRY_ATTEMPTS)
    \/ \E s \in Sessions : Publishing(stream_send_error(s), TRUE)
    \/ \E s \in Sessions : Publishing(retry_sleep(s), FALSE)
    \/ \E s \in Sessions : Publishing(retry_cancelled(s), FALSE)
    \/ \E s \in Sessions : Publishing(initial_wait(s), FALSE)
    \/ \E s \in Sessions, k \in Slots : Publishing(net_chunk(s, k, PROGRESS_INTERVAL), FALSE)
    \/ \E s \in Sessions, k \in Slots : Publishing(net_select_cancelled(s, k), FALSE)
    \/ \E s \in Sessions, k \in Slots : Publishing(net_select_chunk(s, k), FALSE)
    \/ \E s \in Sessions, k \in Slots : Publishing(net_manage(s, k), FALSE)
    \/ \E s \in Sessions, k \in Slots :
          Publishing(net_append(s, k), net[s][k].total_bytes % PROGRESS_INTERVAL = 0)
    \/ \E u \in Subscribers : event_receiver(u)
    \/ \E u \in Subscribers : sub_changed(u)
    \/ \E u \in Subscribers : sub_borrow(u)

SpecEvents == Init /\ [][EventsNext]_vars

\* ------------------------------------------------ resolving a playlist
\* resolve_stream_url of a playlist URL: the engine's parse of the fetched body
resolve_stream_url ==
    /\ "resolve_stream_url" \notin resolution.called
    /\ resolution' = [resolution EXCEPT
                        !.called = @ \cup {"resolve_stream_url"},
                        !.parse_playlist = parse_playlist(resolution.playlist_url, content)]
    /\ UNCHANGED << pvars, event, cancelled, cvars, tvars, gvars, evars, content, ui_app, kvars >>

\* stream_with_retry: the resolved URL, or the original one when resolution failed
resolve_fallback ==
    /\ "resolve_stream_url" \in resolution.called
    /\ "actual_url" \notin resolution.called
    /\ resolution' = [resolution EXCEPT
                        !.called = @ \cup {"actual_url"},
                        !.actual_url = IF resolution.parse_playlist.ok
                                       THEN resolution.parse_playlist.v
                                       ELSE resolution.playlist_url]
    /\ UNCHANGED << pvars, event, cancelled, cvars, tvars, gvars, evars, content, ui_app, kvars >>

\* ParsingUtils::parse_pls_content on the same body
utils_parse_pls_content ==
    /\ "parse_pls_content" \notin resolution.called
    /\ resolution' = [resolution EXCEPT
                        !.called = @ \cup {"parse_pls_content"},
                        !.parse_pls_content = parse_pls_content(content)]
    /\ UNCHANGED << pvars, event, cancelled, cvars, tvars, gvars, evars, content, ui_app, kvars >>

\* any playlist body of up to MaxLines lines, behind a .pls or a .m3u URL
PlaylistInit ==
    /\ EngineInit
    /\ content \in Bodies(MaxLines)
    /\ \E u \in PlaylistUrls : resolution = ResolutionInit(u)

PlaylistNext ==
    \/ resolve_stream_url
    \/ resolve_fallback
    \/ utils_parse_pls_content

SpecPlaylist == PlaylistInit /\ [][PlaylistNext]_vars

\* --------------------------------------------- commands, one after another
\* the caller plays MaxSessions times and stops, pauses, resumes and shuts down in
\* between; every session's requests fail, so the sessions retry and wait
CommandsNext ==
    \/ Step(stop)
    \/ \E u \in Urls : Step(play_stop(u, MaxSessions))
    \/ Step(play_install)
    \/ Step(play_spawn)
    \/ Step(pause)
    \/ Step(resume)
    \/ Step(shutdown_stop)
    \/ Step(shutdown_clear)
    \/ \E s \in Sessions : Step(retry_check(s))
    \/ \E s \in Sessions : Step(retry_cancel_check(s))
    \/ \E s \in Sessions : Step(resolve_direct(s))
    \/ \E s \in Sessions, ok \in BOOLEAN : Step(resolve_playlist(s, ok))
    \/ \E s \in Sessions : Step(attempt_sink(s, TRUE))
    \/ \E s \in Sessions : Step(attempt_connected(s))
    \/ \E s \in Sessions : Step(http_response(s, FALSE))
    \/ \E s \in Sessions : Step(stream_failed(s))
    \/ \E s \in Sessions : Step(stream_send_error(s))
    \/ \E s \in Sessions : Step(retry_sleep(s))
    \/ \E s \in Sessions : Step(retry_cancelled(s))

SpecCommands == Init /\ [][CommandsNext]_vars

\* ------------------------------------------- a stream that ends or breaks
\* the body comes in chunks of the size the initial wait needs
DecodeChunkSizes == {INITIAL_BUFFER}

\* one play() of a direct stream that connects and is never stopped; the body
\* delivers chunks, transport errors, or ends; the decode worker never meets the
\* fetch task at the buffer lock and runs MaxStarves iterations
DecodeNext ==
    \/ Step(play_stop(UrlDirect, MaxPlays))
    \/ Step(play_install)
    \/ Step(play_spawn)
    \/ \E s \in Sessions : Step(retry_check(s))
    \/ \E s \in Sessions : Step(retry_cancel_check(s))
    \/ \E s \in Sessions : Step(resolve_direct(s))
    \/ \E s \in Sessions : Step(attempt_sink(s, TRUE))
    \/ \E s \in Sessions : Step(attempt_connected(s))
    \/ \E s \in Sessions : Step(http_response(s, TRUE))
    \/ \E s \in Sessions : Step(initial_wait(s))
    \/ \E s \in Sessions, m \in ReadSizes : Step(probe(s, m, TRUE))
    \/ \E s \in Sessions : Step(feed_recv(s))
    \/ \E s \in Sessions : Step(feed_closed(s))
    \/ \E s \in Sessions : Step(join_decode(s))
    \/ \E s \in Sessions, k \in Slots, c \in DecodeChunkSizes : Step(net_chunk(s, k, c))
    \/ \E s \in Sessions, k \in Slots : Step(net_chunk_err(s, k))
    \/ \E s \in Sessions, k \in Slots : Step(net_end(s, k))
    \/ \E s \in Sessions, k \in Slots : Step(net_select_chunk(s, k))
    \/ \E s \in Sessions, k \in Slots : Step(net_manage(s, k))
    \/ \E s \in Sessions, k \in Slots : Step(net_append(s, k))
    \/ \E s \in Sessions : Step(dec_check(s, MaxStarves))
    \/ \E s \in Sessions, m \in ReadSizes, o \in PacketOutcomes :
          Step(dec_next_packet(s, m, o))
    \/ \E s \in Sessions : Step(dec_try_send(s))

SpecDecode == Init /\ [][DecodeNext]_vars

\* ------------------------------------------------ one station after another
\* the caller plays MaxSessions direct streams one after another; every stream
\* connects, delivers and decodes, and a cancelled session winds down at its own pace
SwitchNext ==
    \/ Step(play_stop(UrlDirect, MaxSessions))
    \/ Step(play_install)
    \/ Step(play_spawn)
    \/ \E s \in Sessions : Step(retry_check(s))
    \/ \E s \in Sessions : Step(retry_cancel_check(s))
    \/ \E s \in Sessions : Step(resolve_direct(s))
    \/ \E s \in Sessions : Step(attempt_sink(s, TRUE))
    \/ \E s \in Sessions : Step(attempt_connected(s))
    \/ \E s \in Sessions : Step(http_response(s, TRUE))
    \/ \E s \in Sessions : Step(initial_wait(s))
    \/ \E s \in Sessions, m \in ReadSizes : Step(probe(s, m, TRUE))
    \/ \E s \in Sessions : Step(feed_recv(s))
    \/ \E s \in Sessions : Step(feed_closed(s))
    \/ \E s \in Sessions : Step(feed_cancelled(s))
    \/ \E s \in Sessions : Step(join_decode(s))
    \/ \E s \in Sessions, k \in Slots, c \in DecodeChunkSizes : Step(net_chunk(s, k, c))
    \/ \E s \in Sessions, k \in Slots : Step(net_select_cancelled(s, k))
    \/ \E s \in Sessions, k \in Slots : Step(net_select_chunk(s, k))
    \/ \E s \in Sessions, k \in Slots : Step(net_manage(s, k))
    \/ \E s \in Sessions, k \in Slots : Step(net_append(s, k))
    \/ \E s \in Sessions : Step(dec_cancelled(s))
    \/ \E s \in Sessions : Step(dec_check(s, MaxPolls))
    \/ \E s \in Sessions, m \in ReadSizes : Step(dec_next_packet(s, m, "decoded"))
    \/ \E s \in Sessions : Step(dec_try_send(s))

SpecSwitch == Init /\ [][SwitchNext]_vars

\* ------------------------------------------------------------- the controller
\* AppController: one thread that draws, drains the worker's responses and
\* handles one key at a time; the station list and the tracks come from the worker
MaxStations == 2
StationPool == << "groovesalad", "dronezone", "lush", "defcon" >>
StationsOf(n) == SubSeq(StationPool, 1, n)
StationIds == {StationPool[i] : i \in 1..(MaxStations + 1)}
StationLists == {StationsOf(n) : n \in 0..MaxStations}
Tracks == {"track1", "track2"}
\* get_current_track's result: a track, no track, or an error
TrackResults == {Ok(Some(t)) : t \in Tracks} \cup {Ok(None), Err}
Digits == 0..(MaxStations + 1)

current_station(ui) ==
    IF ui.current_station_index < Len(ui.stations)
    THEN Some(ui.stations[ui.current_station_index + 1])
    ELSE None

select_station(ui, index) ==
    IF index < Len(ui.stations)
    THEN [ui EXCEPT !.current_station_index = index]
    ELSE ui

next_station(ui) ==
    IF ui.stations # << >>
    THEN select_station(ui, (ui.current_station_index + 1) % Len(ui.stations))
    ELSE ui

previous_station(ui) ==
    IF ui.stations # << >>
    THEN select_station(ui, IF ui.current_station_index = 0
                            THEN Len(ui.stations) - 1
                            ELSE ui.current_station_index - 1)
    ELSE ui

\* asks for the selected station's track when it is the one playing; should_send
\* is the debounce's answer and sent the request channel's
maybe_request_track_for_selected(ui, should_send, sent) ==
    IF ~IsSome(current_station(ui)) THEN ui
    ELSE IF playback_state # Playing THEN ui
    ELSE IF /\ IsSome(ui.currently_playing_station_id)
            /\ Unwrap(ui.currently_playing_station_id) # Unwrap(current_station(ui))
         THEN ui
    ELSE IF should_send THEN [ui EXCEPT !.is_fetching_track = sent]
    ELSE ui

\* the controller is between two handlers and has not quit
AppIdle == callerPc = "idle" /\ ~ui_app.should_quit

\* a handler that leaves the player alone
AppOnly(A) ==
    /\ A
    /\ UNCHANGED << pvars, event, cancelled, cvars, tvars, gvars, evars, lvars, kvars >>

\* a step of the player made by a handler, which says what becomes of ui_app
Controls(A) == A /\ Observe /\ UNCHANGED << hist, script, evars, lvars, kvars >>

\* initialize(), and the 'r' key
load_stations ==
    /\ AppIdle
    /\ ui_app' = [ui_app EXCEPT !.is_fetching_stations = TRUE]

key_up(should_send, sent) ==
    /\ AppIdle
    /\ ui_app' = maybe_request_track_for_selected(previous_station(ui_app),
                                                  should_send, sent)

key_down(should_send, sent) ==
    /\ AppIdle
    /\ ui_app' = maybe_request_track_for_selected(next_station(ui_app),
                                                  should_send, sent)

\* select_station_by_number, then the request when the selection moved
key_digit(index, should_send, sent) ==
    /\ AppIdle
    /\ ui_app' = IF /\ index > 0
                    /\ index <= Len(ui_app.stations)
                    /\ index - 1 # ui_app.current_station_index
                 THEN maybe_request_track_for_selected(
                          select_station(ui_app, index - 1), should_send, sent)
                 ELSE ui_app

\* play_current_station up to its call of play(): the station is not the one
\* that plays, the flag is set, and play() stops the old session
key_enter_play(limit) ==
    /\ AppIdle
    /\ IsSome(current_station(ui_app))
    /\ ~(/\ playback_state = Playing
         /\ ui_app.currently_playing_station_id = current_station(ui_app))
    /\ ui_app' = [ui_app EXCEPT !.is_fetching_track = TRUE]
    /\ play_stop(UrlDirect, limit)

\* play_current_station for a station that has no mp3 playlist
key_enter_no_url ==
    /\ AppIdle
    /\ IsSome(current_station(ui_app))
    /\ ~(/\ playback_state = Playing
         /\ ui_app.currently_playing_station_id = current_station(ui_app))
    /\ ui_app' = [ui_app EXCEPT !.is_fetching_track = TRUE]

\* play() returned Ok: the selected station is the one that plays
key_enter_played ==
    /\ play_spawn
    /\ ui_app' = [ui_app EXCEPT !.currently_playing_station_id = current_station(ui_app)]

\* toggle_playback
key_space ==
    /\ AppIdle
    /\ IF playback_state = Playing THEN pause ELSE resume
    /\ UNCHANGED ui_app

\* quit(): stop(), and no station is the playing one
key_quit ==
    /\ AppIdle
    /\ stop
    /\ ui_app' = [ui_app EXCEPT !.should_quit = TRUE,
                                !.currently_playing_station_id = None]

\* process_response(StationsLoaded(res))
process_stations_loaded(res) ==
    /\ AppIdle
    /\ ui_app' = IF res.ok
                 THEN [(IF res.v # << >>
                        THEN select_station([ui_app EXCEPT !.stations = res.v], 0)
                        ELSE [ui_app EXCEPT !.stations = res.v])
                       EXCEPT !.is_fetching_stations = FALSE]
                 ELSE [ui_app EXCEPT !.is_fetching_stations = FALSE]

\* process_response(TrackLoaded) that shows every track that arrives
process_track_loaded_any_station(station_id, result) ==
    /\ AppIdle
    /\ ui_app' = IF result.ok
                 THEN [ui_app EXCEPT !.current_track = result.v,
                                     !.is_fetching_track = FALSE]
                 ELSE [ui_app EXCEPT !.is_fetching_track = FALSE]

\* process_response(TrackLoaded { station_id, result })
process_track_loaded(station_id, result) ==
    /\ AppIdle
    /\ LET apply == IF IsSome(ui_app.currently_playing_station_id)
                    THEN station_id = Unwrap(ui_app.currently_playing_station_id)
                    ELSE IF IsSome(current_station(ui_app))
                         THEN station_id = Unwrap(current_station(ui_app))
                         ELSE FALSE
       IN ui_app' = IF result.ok
                    THEN [ui_app EXCEPT !.current_track = IF apply THEN result.v ELSE @,
                                        !.is_fetching_track = FALSE]
                    ELSE [ui_app EXCEPT !.is_fetching_track = FALSE]

AppNext ==
    \/ AppOnly(load_stations)
    \/ \E should_send \in BOOLEAN, sent \in BOOLEAN : AppOnly(key_up(should_send, sent))
    \/ \E should_send \in BOOLEAN, sent \in BOOLEAN : AppOnly(key_down(should_send, sent))
    \/ \E index \in Digits, should_send \in BOOLEAN, sent \in BOOLEAN :
          AppOnly(key_digit(index, should_send, sent))
    \/ Controls(key_enter_play(MaxSessions))
    \/ AppOnly(key_enter_no_url)
    \/ Step(play_install)
    \/ Controls(key_enter_played)
    \/ Controls(key_space)
    \/ Controls(key_quit)
    \/ \E res \in {Ok(l) : l \in StationLists} \cup {Err} :
          AppOnly(process_stations_loaded(res))
    \/ \E station_id \in StationIds, result \in TrackResults :
          AppOnly(process_track_loaded(station_id, result))
    \/ \E s \in Sessions : Step(retry_check(s))
    \/ \E s \in Sessions : Step(retry_cancel_check(s))
    \/ \E s \in Sessions : Step(resolve_direct(s))
    \/ \E s \in Sessions : Step(attempt_sink(s, TRUE))
    \/ \E s \in Sessions : Step(attempt_connected(s))

SpecApp == Init /\ [][AppNext]_vars

\* ------------------------------------------------------------------ the locks
\* the critical sections of one attempt and of the commands beside it, one lock
\* operation at a time: state.lock(), shared_buf.lock().await, read_pos.lock()
\* and the reader's buffer.try_lock()
LockStep(A) ==
    /\ A
    /\ UNCHANGED << pvars, event, cancelled, cvars, tvars, gvars, evars, lvars, ui_app >>

HeldBy(t) == {l \in Locks : lock_holder[l] = t}
Running(t) == task_at[t].section \notin {"none", "done"}

\* StreamingSource::read takes the buffer with try_lock: it never waits for it
IsTry(t) == task_at[t].section \in {"probe", "read"} /\ HeldBy(t) = {}

\* the task waits for a lock that another task holds
Blocked(t) ==
    /\ task_at[t].need # << >>
    /\ lock_holder[Head(task_at[t].need)] # Free
    /\ ~IsTry(t)

\* lock(): the next lock of the section is free and the task takes it
lock_acquire(t) ==
    /\ task_at[t].need # << >>
    /\ lock_holder[Head(task_at[t].need)] = Free
    /\ lock_holder' = [lock_holder EXCEPT ![Head(task_at[t].need)] = t]
    /\ task_at' = [task_at EXCEPT ![t].need = Tail(task_at[t].need)]

\* try_lock() on a held buffer: read returns WouldBlock; the probe fails with it,
\* the decode worker ends
lock_try_fails(t) ==
    /\ IsTry(t)
    /\ task_at[t].need # << >>
    /\ lock_holder[Head(task_at[t].need)] # Free
    /\ task_at' = [task_at EXCEPT ![t] = Enter(IF task_at[t].section = "probe"
                                                THEN "failed" ELSE "done")]
    /\ UNCHANGED lock_holder

\* the end of the section: its guards are dropped and the task goes on; the
\* attempt spawns the fetch task after the sink, the decode worker after the probe
lock_release(t, next) ==
    /\ Running(t)
    /\ task_at[t].need = << >>
    /\ next \in Follows(task_at[t].section)
    /\ lock_holder' = [l \in Locks |-> IF lock_holder[l] = t THEN Free ELSE lock_holder[l]]
    /\ task_at' = [u \in Tasks |->
                     IF u = t THEN Enter(next)
                     ELSE IF u = "fetch" /\ task_at[t].section = "install_sink" /\ next = "wait"
                          THEN Enter(FirstSection(u))
                     ELSE IF u = "decode" /\ task_at[t].section = "probe" /\ next = "feed"
                          THEN Enter(FirstSection(u))
                     ELSE task_at[u]]

LocksNext ==
    \/ \E t \in Tasks : LockStep(lock_acquire(t))
    \/ \E t \in Tasks : LockStep(lock_try_fails(t))
    \/ \E t \in Tasks, next \in {"command", "install_sink", "wait", "probe", "feed", "failed",
                                 "manage", "cleanup", "evict", "append", "read", "done"} :
          LockStep(lock_release(t, next))

SpecLocks == Init /\ [][LocksNext]_vars

\* ------------------------------------------------------------------ properties
\* every task of session s has returned, or none was started
Terminated(s) ==
    /\ ctl[s].pc \in {"unspawned", "done"}
    /\ \A k \in Slots : net[s][k].pc = "none"
    /\ dec[s].pc \in {"none", "ended"}

ScenarioStates == << Stopped, Connecting, Playing, Paused, Playing, Stopped >>

\* C1: in the scenario play(url), pause(), resume(), stop() on a stream that
\* connects and decodes, playback_state goes through exactly Stopped, Connecting,
\* Playing, Paused, Playing, Stopped: after each command the changes so far are
\* the corresponding prefix of that sequence, and all of it after stop()
C1_ScenarioSequence ==
    /\ script = 0 => hist = SubSeq(ScenarioStates, 1, 1)
    /\ script = 1 => \E n \in 1..3 : hist = SubSeq(ScenarioStates, 1, n)
    /\ script = 2 => hist = SubSeq(ScenarioStates, 1, 4)
    /\ script = 3 => hist = SubSeq(ScenarioStates, 1, 5)
    /\ script = 4 => hist = ScenarioStates /\ playback_state = Stopped

C1_ScenarioDone ==
    /\ script = 4
    /\ hist = ScenarioStates
    /\ \E s \in Sessions : IsCancelled(s) /\ Terminated(s) /\ ctl[s].pc = "done"

\* C2: playback_state goes from Connecting to Playing only once the first audio
\* frame of the attempt has been decoded
C2_PlayingAfterFirstFrame ==
    [][(playback_state = Connecting /\ playback_state' = Playing)
          => \E s \in Sessions : dec'[s].n >= 1 \/ audio_ch'[s] # << >>]_vars

\* the session is the only one the caller started, and it was not cancelled
Undisturbed(s) == s = 1 /\ nSessions = 1 /\ ~IsCancelled(s)

\* the step ends the retry loop of s
Ends(s) == ctl[s].pc # "done" /\ ctl'[s].pc = "done"

\* C3: with auto_reconnect enabled and no stop()/play() issued, a session whose
\* attempts all fail ends with playback_state = Error carrying the last reason
\* and with an Error event published, and an exhausted session has ended
C3_ExhaustionEndsInError ==
    /\ [][\A s \in Sessions :
            (Undisturbed(s) /\ auto_reconnect /\ Ends(s)
                /\ ctl[s].pc \in {"failed", "check_retry"})
            => /\ ctl[s].pc = "failed"
               /\ playback_state' = ErrorState(ctl[s].e)
               /\ event' = EvError("max", ctl[s].e)
               /\ reconnect_attempts' = MAX_RETRY_ATTEMPTS
               /\ obs'[s].errors = MAX_RETRY_ATTEMPTS]_vars
    /\ [](\A s \in Sessions :
            (Undisturbed(s) /\ reconnect_attempts >= MAX_RETRY_ATTEMPTS)
            => ctl[s].pc = "done")

C3_Exhausted ==
    \E s \in Sessions :
        /\ Undisturbed(s) /\ auto_reconnect
        /\ ctl[s].pc = "done"
        /\ reconnect_attempts = MAX_RETRY_ATTEMPTS
        /\ obs[s].attempts = MAX_RETRY_ATTEMPTS
        /\ IsError(playback_state)
        /\ IsErrorEvent(event)

\* C4: play(url) starts at least one fetch attempt whatever auto_reconnect is,
\* so a session that ended without being cancelled made an attempt and
\* playback_state has left Connecting
C4_PlayAlwaysAttempts ==
    \A s \in Sessions :
        (ctl[s].pc = "done" /\ ~IsCancelled(s))
        => obs[s].attempts >= 1 /\ playback_state # Connecting

\* C5: when an attempt fails while auto_reconnect is disabled, the session sets
\* playback_state to Error with the failure reason and starts no further attempt
C5_FailureWithoutReconnect ==
    [][\A s \in Sessions :
         (ctl[s].pc = "failed" /\ ctl'[s].pc # "failed"
             /\ ~auto_reconnect /\ ~IsCancelled(s))
         => playback_state' = ErrorState(ctl[s].e) /\ ctl'[s].pc = "done"]_vars

\* C6: a session whose attempts fail twice and whose third attempt's fetch
\* succeeds has published exactly two Error events followed by Connected, and
\* playback_state is not Error (it is Playing unless the caller paused)
C6_TwoErrorsThenConnected ==
    \A s \in Sessions :
        (Undisturbed(s) /\ obs[s].attempts = 3
            /\ ctl[s].pc \in {"init_wait", "probe", "feed", "join"})
        => /\ obs[s].errors = 2
           /\ obs[s].last = "Connected"
           /\ reconnect_attempts = 2
           /\ playback_state \in {Playing, Paused}

C6_ThirdAttemptPlays ==
    \E s \in Sessions :
        /\ Undisturbed(s) /\ obs[s].attempts = 3
        /\ ctl[s].pc = "feed"
        /\ obs[s].errors = 2 /\ obs[s].last = "Connected"
        /\ playback_state = Playing
        /\ IsSome(sink) /\ Unwrap(sink).queue # << >>

\* C7: a session superseded by stop() or play() writes nothing to playback_state,
\* reconnect_attempts, the sink or the event channel: while no session token is
\* stored, the player stays as stop() left it
C7_SupersededSessionIsSilent ==
    cancellation_token = None
    => /\ playback_state = Stopped
       /\ sink = None
       /\ reconnect_attempts = 0
       /\ event = EvStopped

\* C8: once its token is cancelled, a session's tasks terminate without any
\* further network input: until all of them have, one of them can take a step
\* by itself
C8_CancelledSessionWindsDown ==
    \A s \in Sessions :
        (IsCancelled(s) /\ ~Terminated(s)) => ENABLED OwnStep(s)

\* C9: after the token has been cancelled the fetch task takes no further chunk
\* to append, even if a chunk is available when the cancellation is observed
C9_NoChunkAfterCancel ==
    [][\A s \in Sessions, k \in Slots :
         (IsCancelled(s) /\ net[s][k].pc = "select")
         => net'[s][k].pc # "manage"]_vars

\* what stop() and shutdown() leave behind
Halted ==
    /\ cancellation_token = None
    /\ \A s \in 1..nSessions : IsCancelled(s)
    /\ sink = None
    /\ current_url = None
    /\ reconnect_attempts = 0
    /\ playback_state = Stopped
    /\ event = EvStopped

\* C10: when stop() or shutdown() returns, the stored token is cancelled and
\* removed, the sink is stopped and dropped, current_url is None,
\* reconnect_attempts is 0, playback_state is Stopped and Stopped was published
C10_StopPostcondition ==
    [][(stop \/ shutdown_clear) => Halted']_vars


\* C11: pause() and resume() called while no sink is held leave playback_state,
\* current_url, the token, the retry counter and the sink as they are and
\* publish no event
C11_NoSinkNoOp ==
    [][((pause \/ resume) /\ sink = None)
          => UNCHANGED << playback_state, current_url, cancellation_token,
                          reconnect_attempts, sink, event >>]_vars

\* after play(), before the first attempt created its sink: pause() can be called
C11_ConnectingWithoutSink ==
    /\ callerPc = "idle"
    /\ sink = None
    /\ playback_state = Connecting
    /\ event = EvConnecting(callerUrl)
    /\ \E s \in Sessions : ctl[s].pc = "create_sink" /\ ~IsCancelled(s)

\* C12: pause() changes playback_state only from Playing to Paused, resume()
\* only from Paused to Playing; from Connecting, Error or Stopped they leave it
C12_PauseResumeGuarded ==
    [][/\ pause => \/ playback_state' = playback_state
                   \/ playback_state = Playing /\ playback_state' = Paused
       /\ resume => \/ playback_state' = playback_state
                    \/ playback_state = Paused /\ playback_state' = Playing]_vars


\* C13: whatever the interleaving of appends, reads, compactions and evictions,
\* the read cursor of every buffer is between 0 and the buffer's length
C13_CursorWithinBuffer ==
    \A s \in Sessions, k \in Slots :
        /\ 0 <= sbuf[s][k].pos
        /\ sbuf[s][k].pos <= sbuf[s][k].len

\* a buffer that was evicted from or compacted and then read again, not to its end
C13_ReadAfterDrain ==
    \E s \in Sessions, k \in Slots :
        /\ sbuf[s][k].base > 0
        /\ 0 < sbuf[s][k].pos
        /\ sbuf[s][k].pos < sbuf[s][k].len

\* the step is the compaction of the buffer of attempt k of session s
Compacts(s, k) == net[s][k].pc = "cleanup" /\ net'[s][k].pc = "manage"

\* C14: a compaction removes exactly the bytes before the cursor and sets the
\* cursor to 0: the unread bytes, those of the stream from base + pos to
\* base + len, are the same before and after
C14_CompactionKeepsUnread ==
    [][\A s \in Sessions, k \in Slots :
         Compacts(s, k)
         => /\ sbuf'[s][k].pos = 0
            /\ sbuf'[s][k].base = sbuf[s][k].base + sbuf[s][k].pos
            /\ sbuf'[s][k].base + sbuf'[s][k].len = sbuf[s][k].base + sbuf[s][k].len]_vars

\* a compacted buffer that never held more than MAX_BUFFER_SIZE (nothing was
\* evicted), with unread bytes left
C14_Compacted ==
    \E s \in Sessions, k \in Slots :
        /\ net[s][k].pc = "manage"
        /\ sbuf[s][k].base > CLEANUP_THRESHOLD
        /\ sbuf[s][k].pos = 0
        /\ sbuf[s][k].len > 0
        /\ sbuf[s][k].base + sbuf[s][k].len <= MAX_BUFFER_SIZE

LargestChunk == CHOOSE c \in BufferChunkSizes : \A d \in BufferChunkSizes : d <= c

Evicts(s, k) == net[s][k].pc = "evict" /\ net'[s][k].pc = "manage"

\* C16: an eviction drops the oldest quarter of the buffer, moves the cursor
\* back by as much, saturating at 0, and leaves the length strictly below
\* MAX_BUFFER_SIZE
C16_EvictionBelowMax ==
    [][\A s \in Sessions, k \in Slots :
         Evicts(s, k)
         => LET b == sbuf[s][k]
                drop == b.len \div 4
            IN /\ sbuf'[s][k].len = b.len - drop
               /\ sbuf'[s][k].base = b.base + drop
               /\ sbuf'[s][k].pos = IF b.pos > drop THEN b.pos - drop ELSE 0
               /\ sbuf'[s][k].len < MAX_BUFFER_SIZE]_vars


\* C17: a read of the byte source never fails, also while the fetch task holds
\* the buffer lock: it returns 0 bytes (no data yet) or advances the cursor, so
\* the decode worker ends at a read only on what it found in bytes it was given
C17_ReadNeverFails ==
    [][\A s \in Sessions :
         (dec[s].pc = "packet" /\ dec'[s].pc = "ended")
         => sbuf'[s][Slot(s)].pos > sbuf[s][Slot(s)].pos]_vars


\* the batches of session s in a sequence of << session, batch >> pairs
Ordered(q) ==
    \A i \in 1..Len(q), j \in 1..Len(q) :
        (i < j /\ q[i][1] = q[j][1]) => q[i][2] < q[j][2]

\* C18: the batches of one attempt reach the sink in the order the decode worker
\* produced them (batch numbers increase along the sink's queue and along the
\* channel), whatever the interleaving of the worker and the feeding loop
C18_BatchesInOrder ==
    /\ IsSome(sink) => Ordered(Unwrap(sink).queue)
    /\ \A s \in Sessions :
          /\ \A i \in 1..Len(audio_ch[s]), j \in 1..Len(audio_ch[s]) :
                i < j => audio_ch[s][i] < audio_ch[s][j]
          /\ \A i \in 1..Len(audio_ch[s]) :
                IsSome(sink) =>
                   \A j \in 1..Len(Unwrap(sink).queue) :
                      Unwrap(sink).queue[j][1] = s
                         => Unwrap(sink).queue[j][2] < audio_ch[s][i]

\* several batches in the sink, more waiting in the channel
C18_SeveralBatchesDelivered ==
    /\ IsSome(sink)
    /\ Len(Unwrap(sink).queue) >= 3
    /\ \E s \in Sessions : Len(audio_ch[s]) >= 2

\* C19: while the session is not cancelled, every batch the decode worker
\* decoded is handed to the channel, also when the channel is full: the worker
\* waits and delivers, and drops nothing
C19_NoBatchDropped ==
    [][\A s \in Sessions :
         (dec[s].pc = "send" /\ dec'[s].pc = "check" /\ ~IsCancelled(s))
         => audio_ch'[s] = Append(audio_ch[s], dec[s].n)]_vars


\* C20: the event feed is one slot that a send replaces: before any send it holds
\* Stopped, afterwards the event sent last; a subscriber that is not notified of
\* a change, whenever it was created, has read the event sent last
C20_SubscriberReadsLatest ==
    /\ published = None => event = EvStopped
    /\ IsSome(published) => event = Unwrap(published)
    /\ \A u \in Subscribers :
          (receivers[u].created /\ receivers[u].pc = "wait" /\ ~receivers[u].changed)
          => receivers[u].got = published

\* one subscriber has read Resumed, the event sent last, after waiting; the other
\* still holds the Connecting it read and missed what was sent in between
C20_LatestReadIntermediateMissed ==
    \E u, v \in Subscribers :
        /\ published = Some(EvResumed)
        /\ receivers[u].created /\ receivers[u].pc = "wait" /\ ~receivers[u].changed
        /\ receivers[u].got = Some(EvResumed)
        /\ receivers[v].changed
        /\ receivers[v].got = Some(EvConnecting(UrlDirect))


\* the lines of a body that start with File1=
File1Lines(body) == {i \in 1..Len(body) : StartsWith(body[i], File1)}

\* the complete text after File1= on the first such line
File1Text(body) ==
    LET l == body[CHOOSE i \in File1Lines(body) : \A j \in File1Lines(body) : i <= j]
    IN  SubSeq(l, Len(File1) + 1, Len(l))

\* C21: for a .pls playlist with a File1= line the engine's resolver returns the
\* complete text after File1= on that line ('=' inside the URL included), not
\* another FileN= line, and parse_pls_content returns the same URL
C21_PlsResolvesFile1 ==
    (/\ resolution.playlist_url = PlsUrl
     /\ {"resolve_stream_url", "parse_pls_content"} \subseteq resolution.called
     /\ File1Lines(content) # {})
    => /\ resolution.parse_playlist = Ok(File1Text(content))
       /\ resolution.parse_playlist = resolution.parse_pls_content

\* C22: a .pls body with no File1= line yields a resolution failure, and the
\* engine then uses the original .pls URL for the attempt
C22_NoFile1FallsBack ==
    (/\ resolution.playlist_url = PlsUrl
     /\ File1Lines(content) = {})
    => /\ "resolve_stream_url" \in resolution.called => ~resolution.parse_playlist.ok
       /\ "actual_url" \in resolution.called => resolution.actual_url = PlsUrl


\* the tokens made so far: play() makes one per session
Tokens == 1..nSessions

\* C23: whatever play(), stop() and shutdown() calls the caller issues one after
\* another, at most one session token is uncancelled, and it is the token the
\* player state holds: play() cancels the previous token before installing its own
C23_OneLiveToken ==
    \A s \in Tokens : s \notin cancelled => cancellation_token = Some(s)

\* a second play(): the first session's token is cancelled, the second is held
C23_SecondPlayInstalled ==
    /\ nSessions = 2
    /\ 1 \in cancelled
    /\ 2 \notin cancelled
    /\ cancellation_token = Some(2)
    /\ ctl[1].pc # "none"


\* C24: an attempt whose decode worker ended on a fatal decode or format error
\* (the only way it ends under SpecDecode) returns as a failure to the retry
\* controller, which counts it in reconnect_attempts
C24_FatalDecodeErrorFails ==
    [][\A s \in Sessions :
         (ctl[s].pc = "join" /\ ctl'[s].pc # "join")
         => ctl'[s].pc = "failed"]_vars

\* C25: a transport error in the response body is not ignored: the fetch task
\* that takes it ends instead of going on to the next chunk
C25_BodyErrorEndsFetch ==
    [][\A s \in Sessions, k \in Slots :
         (net[s][k].pc = "select" /\ net[s][k].chunk < 0 /\ net'[s][k] # net[s][k])
         => net'[s][k].pc = "none"]_vars

\* the stream of the attempt of s has ended and every buffered byte was read
Drained(s) ==
    /\ ~NetAlive(s, Slot(s))
    /\ sbuf[s][Slot(s)].pos >= sbuf[s][Slot(s)].len

\* C26: once the stream has ended and the buffer is drained, sustained starvation
\* stops the decode worker: the read that is starved MAX_CONSECUTIVE_ERRORS + 1
\* times in a row with the backoff delay at its cap ends the worker
C26_StarvationEndsDecode ==
    [][\A s \in Sessions :
         (/\ dec[s].pc = "packet"
          /\ Drained(s)
          /\ dec[s].consecutive_errors >= MAX_CONSECUTIVE_ERRORS
          /\ dec[s].backoff_delay = MAX_BACKOFF_DELAY
          /\ dec'[s] # dec[s])
         => dec'[s].pc = "ended"]_vars


\* C27: within one session the fetch task of an attempt that failed or ended has
\* stopped before the next attempt starts: from the resolution of the URL to the
\* request of a new attempt no fetch task of the session is alive
C27_FetchStopsBeforeNextAttempt ==
    \A s \in Sessions :
        ctl[s].pc \in {"resolve", "create_sink", "send_connected", "http"}
        => \A k \in Slots : ~NetAlive(s, k)


\* C28: PCM decoded from one session's stream is never appended to a sink that a
\* later session created: no batch in the sink's queue comes from a session
\* started before the one that created the sink
C28_NoEarlierSessionInSink ==
    IsSome(sink) =>
        \A i \in 1..Len(Unwrap(sink).queue) :
            Unwrap(sink).queue[i][1] >= Unwrap(sink).owner


\* C29: a session makes at most MAX_RETRY_ATTEMPTS attempts; when it starts an
\* attempt after earlier ones, each earlier attempt has failed and published its
\* Error event, and the round of the new attempt was entered from the retry delay
C29_AttemptsBoundedAndDelayed ==
    /\ [](\A s \in Sessions : obs[s].attempts <= MAX_RETRY_ATTEMPTS)
    /\ [][\A s \in Sessions :
            /\ (ctl[s].pc # "resolve" /\ ctl'[s].pc = "resolve" /\ obs[s].attempts >= 1)
               => obs[s].errors = obs[s].attempts
            /\ (ctl[s].pc # "check_retry" /\ ctl'[s].pc = "check_retry"
                  /\ obs[s].attempts >= 1)
               => ctl[s].pc = "retry_wait"
            /\ (ctl[s].pc = "send_error" /\ ctl'[s].pc # "send_error")
               => IsErrorEvent(event') /\ ctl'[s].pc = "retry_wait"]_vars

\* the fifth attempt of a session is under way after four Error events
C29_FifthAttempt ==
    \E s \in Sessions :
        /\ ~IsCancelled(s)
        /\ obs[s].attempts = MAX_RETRY_ATTEMPTS
        /\ obs[s].errors = MAX_RETRY_ATTEMPTS - 1
        /\ ctl[s].pc = "http"

\* the retry controller between two attempts: the delay and the head of the loop
BetweenAttempts == {"retry_wait", "check_retry", "check_cancel"}

\* C30: a session cancelled while its retry controller waits between attempts
\* starts no further attempt: from there it can only end
C30_CancelledWaitStartsNoAttempt ==
    [][\A s \in Sessions :
         (IsCancelled(s) /\ ctl[s].pc \in BetweenAttempts)
         => /\ ctl'[s].pc \in BetweenAttempts \cup {"done"}
            /\ obs'[s].attempts = obs[s].attempts]_vars

\* a session that failed once is cancelled during its retry delay
C30_CancelledDuringDelay ==
    \E s \in Sessions :
        /\ IsCancelled(s)
        /\ ctl[s].pc = "retry_wait"
        /\ obs[s].errors >= 1
        /\ auto_reconnect
        /\ reconnect_attempts < MAX_RETRY_ATTEMPTS


\* C31: a session that ends in the terminal Error is destroyed: in state Error the
\* player holds no sink and no token that is not cancelled
C31_ErrorHoldsNoSink ==
    IsError(playback_state)
    => /\ sink = None
       /\ IsSome(cancellation_token) => Unwrap(cancellation_token) \in cancelled


\* C32: Connected is published only once the attempt has received a success
\* status and decoding has started (its fetch task and its decode worker exist);
\* an attempt whose request fails has published no Connected
C32_ConnectedAfterConnecting ==
    [][\A s \in Sessions :
         /\ (ctl[s].pc = "send_connected" /\ ctl'[s].pc # "send_connected"
               /\ event' = EvConnected)
            => (\E k \in Slots : NetAlive(s, k)) /\ dec[s].pc # "none"
         /\ (ctl[s].pc = "http" /\ ctl'[s].pc = "failed")
            => obs[s].last # "Connected"]_vars


\* C33: the backoff delay of the decode worker stays within [10 ms, 500 ms]; a
\* read either finds a packet and resets the delay to 10 ms, or is starved and
\* counted with the delay kept, or is the starved read after MAX_CONSECUTIVE_ERRORS
\* others, which waits the delay (at most 500 ms) and sets it to
\* min(2 * delay + jitter, 500 ms); starvation never ends the worker
C33_BackoffBounded ==
    /\ [](\A s \in Sessions :
            dec[s].backoff_delay \in INITIAL_BACKOFF_MS..MAX_BACKOFF_DELAY)
    /\ [][\A s \in Sessions :
            (dec[s].pc = "packet" /\ dec'[s].pc \in {"check", "send"})
            => \/ /\ dec'[s].consecutive_errors = 0
                  /\ dec'[s].backoff_delay = INITIAL_BACKOFF_MS
               \/ /\ dec'[s].pc = "check"
                  /\ dec'[s].consecutive_errors = dec[s].consecutive_errors + 1
                  /\ dec'[s].consecutive_errors <= MAX_CONSECUTIVE_ERRORS
                  /\ dec'[s].backoff_delay = dec[s].backoff_delay
               \/ /\ dec'[s].pc = "check"
                  /\ dec[s].consecutive_errors = MAX_CONSECUTIVE_ERRORS
                  /\ dec'[s].consecutive_errors = 0
                  /\ \E jitter \in 0..9 :
                        dec'[s].backoff_delay =
                           Min(2 * dec[s].backoff_delay + jitter, MAX_BACKOFF_DELAY)]_vars
    /\ [][\A s \in Sessions :
            (dec[s].pc = "packet" /\ sbuf[s][Slot(s)].pos >= sbuf[s][Slot(s)].len
               /\ dec'[s] # dec[s])
            => dec'[s].pc = "check"]_vars

\* the worker is about to wait the capped delay after five doublings
C33_BackoffAtCap ==
    \E s \in Sessions :
        /\ dec[s].pc = "packet"
        /\ dec[s].consecutive_errors = MAX_CONSECUTIVE_ERRORS
        /\ dec[s].backoff_delay = MAX_BACKOFF_DELAY


\* C34: the append that takes the bytes received by a fetch task across a
\* multiple of PROGRESS_INTERVAL (256 KiB) publishes a BufferProgress event,
\* whatever the sizes of the chunks
C34_ProgressEveryInterval ==
    [][\A s \in Sessions, k \in Slots :
         (/\ net[s][k].pc = "append"
          /\ net'[s][k].pc = "next"
          /\ net[s][k].total_bytes \div PROGRESS_INTERVAL
                > (net[s][k].total_bytes - net[s][k].chunk) \div PROGRESS_INTERVAL)
         => event' = EvBufferProgress(sbuf'[s][k].len)]_vars


\* C35: a TrackLoaded response for station X replaces current_track only when X
\* is the playing station, or when nothing has been played and X is the selected
\* station; a response for another station and a failed response leave
\* current_track as it was; every TrackLoaded response clears is_fetching_track
Applies(station_id) ==
    \/ ui_app.currently_playing_station_id = Some(station_id)
    \/ /\ nSessions = 0
       /\ current_station(ui_app) = Some(station_id)

C35_TrackShownForPlayingStation ==
    [][\A station_id \in StationIds, result \in TrackResults :
          process_track_loaded(station_id, result)
          => /\ ~ui_app'.is_fetching_track
             /\ (result.ok /\ Applies(station_id))
                => ui_app'.current_track = result.v
             /\ ~(result.ok /\ Applies(station_id))
                => ui_app'.current_track = ui_app.current_track]_vars

\* a track is shown for the playing station while another one is selected
C35_PlayingStationTrackShown ==
    /\ IsSome(ui_app.current_track)
    /\ ~ui_app.is_fetching_track
    /\ IsSome(ui_app.currently_playing_station_id)
    /\ IsSome(current_station(ui_app))
    /\ current_station(ui_app) # ui_app.currently_playing_station_id


\* C36: while playback_state is Paused the output sink stays paused: no step of
\* the session's tasks resumes output between pause() and the next command
C36_PausedSinkStaysPaused ==
    (playback_state = Paused /\ IsSome(sink)) => Unwrap(sink).paused

\* C37: reconnect_attempts never exceeds MAX_RETRY_ATTEMPTS, also while a
\* cancelled session's attempt is still in flight beside a later session's
C37_ReconnectAttemptsBounded == reconnect_attempts <= MAX_RETRY_ATTEMPTS


\* the step appends the pending chunk to the buffer of attempt k of session s
Appends(s, k) == net[s][k].pc = "append" /\ net'[s][k].pc = "next"

\* every append finds at most BACKPRESSURE_THRESHOLD bytes and leaves at most
\* that plus the chunk; a backpressure sleep changes nothing in the buffer and
\* leads to a new look or, on cancellation, to the end of the task
AppendsBelowThreshold ==
    \A s \in Sessions, k \in Slots :
        /\ Appends(s, k)
           => /\ sbuf[s][k].len <= BACKPRESSURE_THRESHOLD
              /\ sbuf'[s][k].len <= BACKPRESSURE_THRESHOLD + net[s][k].chunk
        /\ (net[s][k].pc = "backpressure" /\ net'[s][k] # net[s][k])
           => \/ net'[s][k].pc = "manage" /\ sbuf'[s][k].len = sbuf[s][k].len
              \/ IsCancelled(s) /\ ~NetAlive(s, k)'

\* C38: the fetch task appends a chunk only after it saw at most
\* BACKPRESSURE_THRESHOLD bytes, so the length after an append is at most the
\* threshold plus that chunk; while the length is above the threshold and the
\* cursor at most CLEANUP_THRESHOLD it appends nothing and only sleeps 10 ms and
\* looks again, or returns on cancellation
C38_BackpressureWaitsAboveThreshold ==
    [][/\ AppendsBelowThreshold
       /\ \A s \in Sessions, k \in Slots :
             (/\ net[s][k].pc = "manage" /\ net'[s][k] # net[s][k]
              /\ sbuf[s][k].len > BACKPRESSURE_THRESHOLD
              /\ sbuf[s][k].pos <= CLEANUP_THRESHOLD)
             => net'[s][k].pc = "backpressure" /\ sbuf'[s][k] = sbuf[s][k]]_vars

\* C38, as the code has it: the wait is taken while the length is above
\* BACKPRESSURE_THRESHOLD and at most MAX_BUFFER_SIZE; above MAX_BUFFER_SIZE the
\* task evicts the oldest quarter instead of waiting
C38_BackpressureWaitsUpToMax ==
    [][/\ AppendsBelowThreshold
       /\ \A s \in Sessions, k \in Slots :
             (/\ net[s][k].pc = "manage" /\ net'[s][k] # net[s][k]
              /\ sbuf[s][k].len > BACKPRESSURE_THRESHOLD
              /\ sbuf[s][k].pos <= CLEANUP_THRESHOLD)
             => /\ sbuf'[s][k] = sbuf[s][k]
                /\ net'[s][k].pc = IF sbuf[s][k].len > MAX_BUFFER_SIZE
                                   THEN "evict" ELSE "backpressure"]_vars

\* the fetch task waits with a chunk in hand: the buffer is above the threshold
\* and the decoder has not read CLEANUP_THRESHOLD bytes
C38_WaitingWithChunk ==
    \E s \in Sessions, k \in Slots :
        /\ net[s][k].pc = "backpressure"
        /\ net[s][k].chunk > 0
        /\ sbuf[s][k].len > BACKPRESSURE_THRESHOLD
        /\ sbuf[s][k].pos <= CLEANUP_THRESHOLD


\* C39: when the network stream has ended with less than INITIAL_BUFFER bytes
\* buffered, the attempt still leaves the initial wait without a stop() or a new
\* play(): once the fetch task is over and the token is live, the wait's own
\* exit condition holds
C39_InitialWaitEndsWithStream ==
    \A s \in Sessions :
        (/\ ctl[s].pc = "init_wait"
         /\ ~NetAlive(s, Slot(s))
         /\ ~IsCancelled(s))
        => sbuf[s][Slot(s)].len >= INITIAL_BUFFER


\* a set of tasks each of which waits for a lock held by a task of the set
Deadlocked(D) ==
    /\ D # {}
    /\ \A t \in D : Blocked(t) /\ lock_holder[Head(task_at[t].need)] \in D

\* C40: the fetch task and the decoder's reader take the buffer lock before the
\* cursor lock, no task waits for the state mutex while it holds a buffer or
\* cursor lock, and no interleaving of the fetch task, the decode worker, the
\* sink-feeding loop and the caller's commands reaches a deadlock
C40_LockOrderNoDeadlock ==
    /\ \A t \in Tasks :
          /\ "read_pos" \in HeldBy(t)
             => ("shared_buf" \in HeldBy(t) /\ task_at[t].need = << >>)
          /\ (task_at[t].need # << >> /\ Head(task_at[t].need) = "state")
             => HeldBy(t) = {}
    /\ \A D \in SUBSET Tasks : ~Deadlocked(D)

\* the fetch task waits for the buffer while the reader holds it and the cursor
C40_FetchWaitsForReader ==
    /\ Blocked("fetch")
    /\ HeldBy("decode") = {"shared_buf", "read_pos"}
    /\ Blocked("caller")
    /\ lock_holder["state"] = "session"

====
